---- MODULE Spec2Model ----
(***************************************************************************)
(* Policy rule normalization and compliance evaluation of the expense      *)
(* triage web client (web/src/app/app.component.ts).                       *)
(*                                                                         *)
(* JavaScript values are tagged records; strings are TLA+ strings read     *)
(* character by character; the regular expressions of the evaluator are    *)
(* operators that accept the language of the expression.                   *)
(***************************************************************************)
EXTENDS Integers, Sequences, FiniteSets, TLC

(***************************************************************************)
(* JavaScript values.  A number is the decimal m / 10^e (e >= 0), or NaN   *)
(* (e = -1).  An object is the ordered list of its own <<key, value>>      *)
(* properties.                                                             *)
(***************************************************************************)
Undef == [t |-> "undefined"]
Null == [t |-> "null"]
Bool(b) == [t |-> "boolean", b |-> b]
Str(s) == [t |-> "string", s |-> s]
Num(m, e) == [t |-> "number", m |-> m, e |-> e]
IntNum(n) == Num(n, 0)
NaN == Num(0, -1)
Obj(kv) == [t |-> "object", kv |-> kv]
Arr(xs) == [t |-> "array", xs |-> xs]
\* the function Object, which a plain object inherits as its constructor
ObjectFunction == [t |-> "function"]

IsStr(v) == v.t = "string"
IsNaN(v) == v.t = "number" /\ v.e = -1
IsArray(v) == v.t = "array"
Nullish(v) == v.t \in {"undefined", "null"}

Min(S) == CHOOSE x \in S : \A y \in S : x <= y

\* F(x) with x evaluated once
Bind(x, F(_)) == CHOOSE y \in {F(v) : v \in {x}} : TRUE

RECURSIVE Pow10(_)
Pow10(e) == IF e <= 0 THEN 1 ELSE 10 * Pow10(e - 1)

\* a === b, a < b on numbers: every comparison with NaN is false
NumEq(a, b) == ~IsNaN(a) /\ ~IsNaN(b) /\ a.m * Pow10(b.e) = b.m * Pow10(a.e)
NumLt(a, b) == ~IsNaN(a) /\ ~IsNaN(b) /\ a.m * Pow10(b.e) < b.m * Pow10(a.e)

\* ToBoolean
Truthy(v) ==
    CASE v.t = "undefined" -> FALSE
      [] v.t = "null" -> FALSE
      [] v.t = "boolean" -> v.b
      [] v.t = "string" -> v.s # ""
      [] v.t = "number" -> ~IsNaN(v) /\ v.m # 0
      [] OTHER -> TRUE

\* o[k] for a value that is not null or undefined: the own property, else undefined
HasKey(o, k) == o.t = "object" /\ \E i \in 1..Len(o.kv) : o.kv[i][1] = k
Get(o, k) ==
    IF HasKey(o, k)
    THEN o.kv[CHOOSE i \in 1..Len(o.kv) : o.kv[i][1] = k][2]
    ELSE Undef

(***************************************************************************)
(* Characters and strings                                                  *)
(***************************************************************************)
Ch(s, i) == SubSeq(s, i, i)
From(s, i) == SubSeq(s, i, Len(s))

WhiteSpace == {" ", "\t", "\n", "\r"}
LineTerminators == {"\n", "\r"}
Digits == {"0", "1", "2", "3", "4", "5", "6", "7", "8", "9"}
LowerAlpha == "abcdefghijklmnopqrstuvwxyz"
UpperAlpha == "ABCDEFGHIJKLMNOPQRSTUVWXYZ"
LowerSet == {Ch(LowerAlpha, i) : i \in 1..26}
UpperSet == {Ch(UpperAlpha, i) : i \in 1..26}

LowerCh(c) ==
    IF c \in UpperSet
    THEN Ch(LowerAlpha, CHOOSE i \in 1..26 : Ch(UpperAlpha, i) = c)
    ELSE c

RECURSIVE toLowerCase(_)
toLowerCase(s) ==
    IF s = "" THEN "" ELSE LowerCh(Ch(s, 1)) \o toLowerCase(From(s, 2))

\* the literal lit at position i of s
StartsAt(s, i, lit) ==
    /\ i >= 1
    /\ i + Len(lit) - 1 <= Len(s)
    /\ SubSeq(s, i, i + Len(lit) - 1) = lit

\* the lower-case literal lit at position i of s, under the regex flag i
StartsAtCI(s, i, lit) ==
    /\ i >= 1
    /\ i + Len(lit) - 1 <= Len(s)
    /\ toLowerCase(SubSeq(s, i, i + Len(lit) - 1)) = lit

\* the end of a greedy run of characters of the set cs that starts at i:
\* the first position >= i whose character is not in cs
RECURSIVE RunEnd(_, _, _)
RunEnd(s, i, cs) ==
    IF i <= Len(s) /\ Ch(s, i) \in cs THEN RunEnd(s, i + 1, cs) ELSE i

SkipWs(s, i) == RunEnd(s, i, WhiteSpace)

RECURSIVE TrimEnd(_)
TrimEnd(s) ==
    IF s # "" /\ Ch(s, Len(s)) \in WhiteSpace
    THEN TrimEnd(SubSeq(s, 1, Len(s) - 1))
    ELSE s

\* String.prototype.trim
trim(s) == TrimEnd(From(s, SkipWs(s, 1)))

\* a run of decimal digits as a natural number
RECURSIVE DigitsVal(_)
DigitsVal(s) ==
    IF s = "" THEN 0
    ELSE 10 * DigitsVal(SubSeq(s, 1, Len(s) - 1))
         + (CHOOSE d \in 0..9 : Ch("0123456789", d + 1) = Ch(s, Len(s)))

RECURSIVE Normal(_, _)
Normal(m, e) == IF e > 0 /\ m % 10 = 0 THEN Normal(m \div 10, e - 1) ELSE Num(m, e)

\* the language \d+(?:\.\d+)? and the number such a literal denotes
IsNumLit(s) ==
    LET d == RunEnd(s, 1, Digits)
    IN  /\ d > 1
        /\ \/ d = Len(s) + 1
           \/ /\ Ch(s, d) = "."
              /\ d + 1 <= Len(s)
              /\ RunEnd(s, d + 1, Digits) = Len(s) + 1

NumLitVal(s) ==
    LET d == RunEnd(s, 1, Digits)
    IN  IF d = Len(s) + 1
        THEN IntNum(DigitsVal(s))
        ELSE Normal(DigitsVal(SubSeq(s, 1, d - 1) \o From(s, d + 1)), Len(s) - d)

\* Number(s) for a string: StringNumericLiteral limited to signed decimals
\* (no exponent, hexadecimal or Infinity forms occur in the inputs)
StrToNumber(s0) ==
    LET s == trim(s0)
        neg == StartsAt(s, 1, "-")
        body == IF neg \/ StartsAt(s, 1, "+") THEN From(s, 2) ELSE s
    IN  IF s = "" THEN IntNum(0)
        ELSE IF IsNumLit(body)
             THEN LET v == NumLitVal(body) IN Num(IF neg THEN 0 - v.m ELSE v.m, v.e)
             ELSE NaN

\* Number::toString for decimals below 10^21 in magnitude
RECURSIVE ZeroPad(_, _)
ZeroPad(s, n) == IF Len(s) >= n THEN s ELSE ZeroPad("0" \o s, n)

NumToString(v) ==
    IF IsNaN(v) THEN "NaN"
    ELSE LET a == IF v.m < 0 THEN 0 - v.m ELSE v.m
             p == Pow10(v.e)
         IN  (IF v.m < 0 THEN "-" ELSE "")
             \o ToString(a \div p)
             \o (IF v.e > 0 THEN "." \o ZeroPad(ToString(a % p), v.e) ELSE "")

\* String(v); an array is the comma-joined list of its elements
RECURSIVE ToStr(_)
RECURSIVE JoinWith(_, _)
ToStr(v) ==
    CASE v.t = "string" -> v.s
      [] v.t = "number" -> NumToString(v)
      [] v.t = "boolean" -> IF v.b THEN "true" ELSE "false"
      [] v.t = "null" -> "null"
      [] v.t = "undefined" -> "undefined"
      [] v.t = "array" -> JoinWith(v.xs, ",")
      [] v.t = "function" -> "function Object() { [native code] }"
      [] OTHER -> "[object Object]"

\* Array.prototype.join: null and undefined elements give the empty string
JoinWith(xs, sep) ==
    IF xs = <<>> THEN ""
    ELSE LET h == IF Nullish(xs[1]) THEN "" ELSE ToStr(xs[1])
         IN  IF Len(xs) = 1 THEN h ELSE h \o sep \o JoinWith(Tail(xs), sep)

\* Number(v); an array converts through its string
ToNumber(v) ==
    CASE v.t = "number" -> v
      [] v.t = "string" -> StrToNumber(v.s)
      [] v.t = "boolean" -> IntNum(IF v.b THEN 1 ELSE 0)
      [] v.t = "null" -> IntNum(0)
      [] v.t = "array" -> StrToNumber(ToStr(v))
      [] OTHER -> NaN

(***************************************************************************)
(* evaluateRuleAgainstTx: the regular expressions                          *)
(***************************************************************************)
NoMatch == [ok |-> FALSE]

\* String.prototype.split on /\s+WORD\s+/i, WORD given in lower case.
\* SepEnd: the position after a separator that starts at i, or 0.
SepEnd(s, i, word) ==
    LET r == SkipWs(s, i)
        a == r + Len(word)
    IN  IF r > i /\ StartsAtCI(s, r, word) /\ a <= Len(s) /\ Ch(s, a) \in WhiteSpace
        THEN SkipWs(s, a)
        ELSE 0

\* the start of the leftmost separator at or after position from, or 0
NextSep(s, word, from) ==
    LET is == {i \in from..Len(s) : SepEnd(s, i, word) > 0}
    IN  IF is = {} THEN 0 ELSE Min(is)

\* the parts of s from position start on
RECURSIVE SplitFrom(_, _, _)
SplitFrom(s, word, start) ==
    Bind(NextSep(s, word, start), LAMBDA i :
        IF i = 0 THEN << SubSeq(s, start, Len(s)) >>
        ELSE << SubSeq(s, start, i - 1) >> \o SplitFrom(s, word, SepEnd(s, i, word)))

\* s.split(/\s+word\s+/i).map(p => p.trim())
SplitTrim(s, word) ==
    Bind(SplitFrom(s, word, 1), LAMBDA parts : [k \in 1..Len(parts) |-> trim(parts[k])])

\* clause.replace(/^\(|\)$/g, '').trim()
StripParens(clause) ==
    LET a == IF StartsAt(clause, 1, "(") THEN From(clause, 2) ELSE clause
        b == IF a # "" /\ Ch(a, Len(a)) = ")" THEN SubSeq(a, 1, Len(a) - 1) ELSE a
    IN  trim(b)

\* the alternation (==|=|!=|<=|>=|<|>), in the order the expression tries it
AmountOps == << "==", "=", "!=", "<=", ">=", "<", ">" >>
\* the alternation (==|=|!=)
StringOps == << "==", "=", "!=" >>

\* /^amount\s*(==|=|!=|<=|>=|<|>)\s*(\d+(?:\.\d+)?)$/i
AmountRe(c) ==
    IF ~StartsAtCI(c, 1, "amount") THEN NoMatch
    ELSE LET p == SkipWs(c, 7)
             rest(k) == From(c, SkipWs(c, p + Len(AmountOps[k])))
             ks == {k \in 1..Len(AmountOps) :
                       StartsAt(c, p, AmountOps[k]) /\ IsNumLit(rest(k))}
         IN  IF ks = {} THEN NoMatch
             ELSE [ok |-> TRUE, op |-> AmountOps[Min(ks)], num |-> rest(Min(ks))]

IdentStart == LowerSet \cup UpperSet \cup {"_"}
IdentPart == IdentStart \cup Digits

\* /^([a-zA-Z_][a-zA-Z0-9_]*)\s*(==|=|!=)\s*(["'])(.*)\3$/i
StringRe(c) ==
    IF ~(c # "" /\ Ch(c, 1) \in IdentStart) THEN NoMatch
    ELSE LET ie == RunEnd(c, 2, IdentPart)
             p == SkipWs(c, ie)
             q(k) == SkipWs(c, p + Len(StringOps[k]))
             quoted(k) ==
                 /\ q(k) < Len(c)
                 /\ Ch(c, q(k)) \in {"'", "\""}
                 /\ Ch(c, Len(c)) = Ch(c, q(k))
                 /\ \A j \in (q(k) + 1)..(Len(c) - 1) : Ch(c, j) \notin LineTerminators
             ks == {k \in 1..Len(StringOps) : StartsAt(c, p, StringOps[k]) /\ quoted(k)}
         IN  IF ks = {} THEN NoMatch
             ELSE [ok |-> TRUE,
                   field |-> SubSeq(c, 1, ie - 1),
                   op |-> StringOps[Min(ks)],
                   val |-> SubSeq(c, q(Min(ks)) + 1, Len(c) - 1)]

\* /amount\s*>\s*(\d+(?:\.\d+)?)/i, searched anywhere in the clause
LooseAt(c, i) ==
    /\ StartsAtCI(c, i, "amount")
    /\ LET p == SkipWs(c, i + 6)
       IN  /\ StartsAt(c, p, ">")
           /\ SkipWs(c, p + 1) <= Len(c)
           /\ Ch(c, SkipWs(c, p + 1)) \in Digits

LooseRe(c) ==
    LET is == {i \in 1..Len(c) : LooseAt(c, i)}
    IN  IF is = {} THEN NoMatch
        ELSE LET d == SkipWs(c, SkipWs(c, Min(is) + 6) + 1)
                 e == RunEnd(c, d, Digits)
                 f == IF StartsAt(c, e, ".") /\ RunEnd(c, e + 1, Digits) > e + 1
                      THEN RunEnd(c, e + 1, Digits)
                      ELSE e
             IN  [ok |-> TRUE, num |-> SubSeq(c, d, f - 1)]

(***************************************************************************)
(* evaluateRuleAgainstTx                                                   *)
(***************************************************************************)
\* aval > val read as aval >= val
AmountCmp_GtAsGe(op, aval, val) ==
    CASE op \in {"==", "="} -> NumEq(aval, val)
      [] op = "!=" -> ~NumEq(aval, val)
      [] op = "<" -> NumLt(aval, val)
      [] op = "<=" -> NumLt(aval, val) \/ NumEq(aval, val)
      [] op \in {">", ">="} -> NumLt(val, aval) \/ NumEq(aval, val)
      [] OTHER -> FALSE

\* aval <op> val, as the if-chain of the amount branch compares them
AmountCmp(op, aval, val) ==
    CASE op \in {"==", "="} -> NumEq(aval, val)
      [] op = "!=" -> ~NumEq(aval, val)
      [] op = "<" -> NumLt(aval, val)
      [] op = "<=" -> NumLt(aval, val) \/ NumEq(aval, val)
      [] op = ">" -> NumLt(val, aval)
      [] op = ">=" -> NumLt(val, aval) \/ NumEq(aval, val)
      [] OTHER -> FALSE

\* fval <op> val of the string branch
StringCmp(op, fval, val) ==
    CASE op \in {"==", "="} -> fval = val
      [] op = "!=" -> fval # val
      [] OTHER -> FALSE

\* Number(tx.amount || 0)
TxAmount(tx) ==
    LET a == Get(tx, "amount")
    IN  ToNumber(IF Truthy(a) THEN a ELSE IntNum(0))

\* String(tx[field]) without the default for a field that is not there
TxField_UndefinedText(tx, field) == ToStr(Get(tx, field))

\* String(tx[field] ?? ''); no clause of the inputs names a property that
\* every object inherits (constructor, toString, ...)
TxField(tx, field) ==
    LET v == Get(tx, field)
    IN  IF Nullish(v) THEN "" ELSE ToStr(v)

\* the clause loop with an unknown clause left satisfied (andOk stays true)
ClauseResult_UnknownSat(clause, tx) ==
    LET sat(b) == IF b THEN "sat" ELSE "unsat"
        c == StripParens(clause)
        m1 == AmountRe(c)
        m2 == StringRe(c)
        m3 == LooseRe(c)
    IN  CASE m1.ok -> sat(AmountCmp(m1.op, TxAmount(tx), NumLitVal(m1.num)))
          [] ~m1.ok /\ m2.ok -> sat(StringCmp(m2.op, TxField(tx, m2.field), m2.val))
          [] ~m1.ok /\ ~m2.ok /\ m3.ok -> sat(NumLt(NumLitVal(m3.num), TxAmount(tx)))
          [] OTHER -> "sat"

\* the clause loop raising on a field the transaction does not have
ClauseResult_MissingFieldThrows(clause, tx) ==
    LET sat(b) == IF b THEN "sat" ELSE "unsat"
        c == StripParens(clause)
        m1 == AmountRe(c)
        m2 == StringRe(c)
        m3 == LooseRe(c)
    IN  CASE m1.ok -> sat(AmountCmp(m1.op, TxAmount(tx), NumLitVal(m1.num)))
          [] ~m1.ok /\ m2.ok ->
                IF HasKey(tx, m2.field)
                THEN sat(StringCmp(m2.op, TxField(tx, m2.field), m2.val))
                ELSE "throw"
          [] ~m1.ok /\ ~m2.ok /\ m3.ok -> sat(NumLt(NumLitVal(m3.num), TxAmount(tx)))
          [] OTHER -> "unsat"

\* One pass of the clause loop: "sat" (continue with andOk true), "unsat"
\* (andOk false, break) or "throw" (a property read of a null or undefined tx).
ClauseResult(clause, tx) ==
    LET sat(b) == IF b THEN "sat" ELSE "unsat"
    IN  Bind(StripParens(clause), LAMBDA c :
        Bind(AmountRe(c), LAMBDA m1 :
            IF m1.ok
            THEN IF Nullish(tx) THEN "throw"
                 ELSE sat(AmountCmp(m1.op, TxAmount(tx), NumLitVal(m1.num)))
            ELSE Bind(StringRe(c), LAMBDA m2 :
                IF m2.ok
                THEN IF Nullish(tx) THEN "throw"
                     ELSE sat(StringCmp(m2.op, TxField(tx, m2.field), m2.val))
                ELSE Bind(LooseRe(c), LAMBDA m3 :
                    IF m3.ok
                    THEN IF Nullish(tx) THEN "throw"
                         ELSE sat(NumLt(NumLitVal(m3.num), TxAmount(tx)))
                    ELSE "unsat"))))

\* for(const clause of andParts): the value of andOk after the loop, or "throw"
RECURSIVE AndLoop(_, _, _)
AndLoop(andParts, k, tx) ==
    IF k > Len(andParts) THEN "sat"
    ELSE Bind(ClauseResult(andParts[k], tx), LAMBDA r :
             IF r = "sat" THEN AndLoop(andParts, k + 1, tx) ELSE r)

\* the OR loop returning after its first part
OrLoop_FirstOnly(orParts, k, tx) ==
    IF k > Len(orParts) THEN "false"
    ELSE IF AndLoop(SplitTrim(orParts[k], "and"), 1, tx) = "sat" THEN "true" ELSE "false"

\* for(const orPart of orParts): return true at the first part whose andOk holds
RECURSIVE OrLoop(_, _, _)
OrLoop(orParts, k, tx) ==
    IF k > Len(orParts) THEN "false"
    ELSE Bind(AndLoop(SplitTrim(orParts[k], "and"), 1, tx), LAMBDA r :
             CASE r = "sat" -> "true"
               [] r = "throw" -> "throw"
               [] OTHER -> OrLoop(orParts, k + 1, tx))

\* (rule && rule.condition) || ''
RuleCond(rule) ==
    IF Truthy(rule) /\ Truthy(Get(rule, "condition")) THEN Get(rule, "condition") ELSE Str("")

\* evaluateRuleAgainstTx(rule, tx): "true", "false", or "throw" when it raises
evaluateRuleAgainstTx(rule, tx) ==
    Bind(RuleCond(rule), LAMBDA cond :
        IF ~Truthy(cond) THEN "false"
        ELSE OrLoop(SplitTrim(trim(ToStr(cond)), "or"), 1, tx))

(***************************************************************************)
(* Objects: property assignment, spread, JSON.stringify                    *)
(***************************************************************************)
\* o[k] = v: an existing key keeps its place, a new key goes last
SetKey(o, k, v) ==
    IF HasKey(o, k)
    THEN Obj([i \in 1..Len(o.kv) |-> IF o.kv[i][1] = k THEN <<k, v>> ELSE o.kv[i]])
    ELSE Obj(Append(o.kv, <<k, v>>))

\* { ...r }: the own properties of an object, the elements of an array, the
\* characters of a string; any other value spreads to nothing
Spread(r) ==
    CASE r.t = "object" -> r.kv
      [] r.t = "array" -> [i \in 1..Len(r.xs) |-> <<ToString(i - 1), r.xs[i]>>]
      [] r.t = "string" -> [i \in 1..Len(r.s) |-> <<ToString(i - 1), Str(Ch(r.s, i))>>]
      [] OTHER -> <<>>

\* the text JSON.stringify writes for one character of a string
EscapeChar(c) ==
    CASE c = "\"" -> "\\\""
      [] c = "\\" -> "\\\\"
      [] c = "\n" -> "\\n"
      [] c = "\r" -> "\\r"
      [] c = "\t" -> "\\t"
      [] OTHER -> c

\* the characters of s escaped, halving s until one character is left
RECURSIVE EscapeJson(_)
EscapeJson(s) ==
    IF Len(s) = 0 THEN ""
    ELSE IF Len(s) = 1 THEN EscapeChar(s)
    ELSE EscapeJson(SubSeq(s, 1, Len(s) \div 2)) \o EscapeJson(From(s, Len(s) \div 2 + 1))

\* JSON.stringify(v) without indentation
RECURSIVE JSONstringify(_)
RECURSIVE StringifyMembers(_, _)
RECURSIVE StringifyElements(_)
JSONstringify(v) ==
    CASE v.t = "string" -> "\"" \o EscapeJson(v.s) \o "\""
      [] v.t = "number" -> IF IsNaN(v) THEN "null" ELSE NumToString(v)
      [] v.t = "boolean" -> IF v.b THEN "true" ELSE "false"
      [] v.t = "object" -> "{" \o StringifyMembers(v.kv, TRUE) \o "}"
      [] v.t = "array" -> "[" \o StringifyElements(v.xs) \o "]"
      [] OTHER -> "null"

\* the members of an object; a member whose value is undefined or a function
\* is left out
StringifyMembers(kv, first) ==
    IF kv = <<>> THEN ""
    ELSE IF kv[1][2].t \in {"undefined", "function"} THEN StringifyMembers(Tail(kv), first)
    ELSE (IF first THEN "" ELSE ",")
         \o "\"" \o EscapeJson(kv[1][1]) \o "\":" \o JSONstringify(kv[1][2])
         \o StringifyMembers(Tail(kv), FALSE)

StringifyElements(xs) ==
    IF xs = <<>> THEN ""
    ELSE JSONstringify(xs[1])
         \o (IF Len(xs) > 1 THEN "," \o StringifyElements(Tail(xs)) ELSE "")

(***************************************************************************)
(* normalizeParserResponse: condition synthesis                            *)
(***************************************************************************)
WordChars == IdentPart

\* \b before position i of s
WordBoundary(s, i) ==
    LET before == i > 1 /\ Ch(s, i - 1) \in WordChars
        after == i <= Len(s) /\ Ch(s, i) \in WordChars
    IN  before # after

\* /[><=]|\band\b|\bor\b|==|!=/i.test(cond)
LooksLikeCode(cond) ==
    \E i \in 1..Len(cond) :
        \/ Ch(cond, i) \in {">", "<", "="}
        \/ \E w \in {"and", "or"} :
              /\ StartsAtCI(cond, i, w)
              /\ WordBoundary(cond, i)
              /\ WordBoundary(cond, i + Len(w))

\* synthRuleCondition without the test of line 1026 for a condition that
\* already looks like code
synthRuleCondition_AlwaysSynthesize(r) ==
    LET c == Get(r, "condition")
        thr == ToNumber(Get(r, "threshold"))
    IN  IF /\ Truthy(r)
           /\ ~Nullish(Get(r, "threshold"))
           /\ Truthy(Get(r, "category"))
           /\ ~IsNaN(thr)
        THEN Str("category == '" \o ToStr(Get(r, "category")) \o "' and amount > "
                 \o NumToString(thr))
        ELSE c

\* synthRuleCondition(r), for a rule r that is not null or undefined
synthRuleCondition(r) ==
    LET c == Get(r, "condition")
        thr == ToNumber(Get(r, "threshold"))
    IN  IF Truthy(r) /\ Truthy(c) /\ IsStr(c) /\ LooksLikeCode(trim(c.s))
        THEN c
        ELSE IF /\ Truthy(r)
                /\ ~Nullish(Get(r, "threshold"))
                /\ Truthy(Get(r, "category"))
                /\ ~IsNaN(thr)
        THEN Str("category == '" \o ToStr(Get(r, "category")) \o "' and amount > "
                 \o NumToString(thr))
        ELSE c

\* the loop body entered only for a condition that is a string
SynthesizeRule_StringOnly(rr) ==
    Bind(synthRuleCondition(rr), LAMBDA synthesized :
        IF /\ IsStr(Get(rr, "condition"))
           /\ Truthy(synthesized)
           /\ synthesized # Get(rr, "condition")
        THEN SetKey(rr, "condition", synthesized)
        ELSE rr)

\* the body of for(const rr of doc.rules), for rr not null or undefined
SynthesizeRule(rr) ==
    Bind(synthRuleCondition(rr), LAMBDA synthesized :
        IF /\ ~Truthy(Get(rr, "condition")) \/ IsStr(Get(rr, "condition"))
           /\ Truthy(synthesized)
           /\ synthesized # Get(rr, "condition")
        THEN SetKey(rr, "condition", synthesized)
        ELSE rr)

(***************************************************************************)
(* normalizeParserResponse: the shapes of an object response               *)
(***************************************************************************)
\* typeof v === 'object'
TypeofObject(v) == v.t \in {"object", "array", "null"}

\* Object.keys(v) with the value of each key, for an object or an array
Entries(v) ==
    CASE v.t = "object" -> v.kv
      [] v.t = "array" -> [i \in 1..Len(v.xs) |-> <<ToString(i - 1), v.xs[i]>>]
      [] OTHER -> <<>>

\* Array.isArray(v) && v.length>0 && typeof v[0] === 'object'
ObjectArray(v) == IsArray(v) /\ Len(v.xs) > 0 /\ TypeofObject(v.xs[1])

\* 'name' in v[0] || 'condition' in v[0] raises a TypeError when v[0] is null
InRaises(v) == v.xs[1].t = "null"
RuleLike(v) == HasKey(v.xs[1], "name") \/ HasKey(v.xs[1], "condition")

NoDoc == [found |-> FALSE, threw |-> FALSE]
Raised == [found |-> FALSE, threw |-> TRUE]
Found(d) == [found |-> TRUE, threw |-> FALSE, doc |-> d]

\* { rules: v, source: resp.source || k }
KeyedDoc(resp, k, v) ==
    LET src == Get(resp, "source")
    IN  Obj(<< <<"rules", v>>, <<"source", IF Truthy(src) THEN src ELSE Str(k)>> >>)

\* for(const k of Object.keys(resp)): the first key holding rule-like objects
RECURSIVE KeyLoop(_, _, _)
KeyLoop(resp, es, i) ==
    IF i > Len(es) THEN NoDoc
    ELSE IF ObjectArray(es[i][2])
         THEN IF InRaises(es[i][2]) THEN Raised
              ELSE IF RuleLike(es[i][2]) THEN Found(KeyedDoc(resp, es[i][1], es[i][2]))
              ELSE KeyLoop(resp, es, i + 1)
         ELSE KeyLoop(resp, es, i + 1)

\* the shapes of the response without the test for a document at line 961
ShapedDoc_NoDocShape(resp) ==
    IF ~TypeofObject(resp) THEN NoDoc
    ELSE Bind(KeyLoop(resp, Entries(resp), 1), LAMBDA byKey :
             IF byKey.found \/ byKey.threw THEN byKey
             ELSE IF ObjectArray(resp)
                  THEN IF InRaises(resp) THEN Raised
                       ELSE IF RuleLike(resp) THEN Found(Obj(<< <<"rules", resp>> >>))
                       ELSE NoDoc
                  ELSE NoDoc)

\* lines 960-976: the response itself as (a) a document, (b) an object with
\* one key holding rules, (c) an array of rules
ShapedDoc(resp) ==
    IF ~TypeofObject(resp) THEN NoDoc
    ELSE IF IsArray(Get(resp, "rules")) THEN Found(resp)
    ELSE Bind(KeyLoop(resp, Entries(resp), 1), LAMBDA byKey :
             IF byKey.found \/ byKey.threw THEN byKey
             ELSE IF ObjectArray(resp)
                  THEN IF InRaises(resp) THEN Raised
                       ELSE IF RuleLike(resp) THEN Found(Obj(<< <<"rules", resp>> >>))
                       ELSE NoDoc
                  ELSE NoDoc)

(***************************************************************************)
(* JSON.parse.  A result is [ok, v, p]: the value read and the position    *)
(* after it.  String escapes are limited to \" \\ \/ \n \r \t (no \b, \f   *)
(* or \u escape occurs in the inputs).                                     *)
(***************************************************************************)
JsonWs == {" ", "\t", "\n", "\r"}
SyntaxError == [ok |-> FALSE]
Parsed(v, p) == [ok |-> TRUE, v |-> v, p |-> p]

SkipJsonWs(s, i) == RunEnd(s, i, JsonWs)

\* the number of backslashes that end just before position j of a string
\* literal whose characters start at position i
BackslashRun(s, i, j) ==
    LET others == {q \in i..(j - 1) : Ch(s, q) # "\\"}
    IN  j - 1 - (IF others = {} THEN i - 1
                 ELSE CHOOSE q \in others : \A r \in others : r <= q)

\* the backslash at position k begins an escape
EscapeAt(s, i, k) == Ch(s, k) = "\\" /\ BackslashRun(s, i, k) % 2 = 0

\* the quote that closes the literal: the first one no escape covers, or 0
ClosingQuote(s, i) ==
    LET qs == {j \in i..Len(s) : Ch(s, j) = "\"" /\ BackslashRun(s, i, j) % 2 = 0}
    IN  IF qs = {} THEN 0 ELSE Min(qs)

Unescaped(e) ==
    CASE e = "n" -> "\n"
      [] e = "r" -> "\r"
      [] e = "t" -> "\t"
      [] OTHER -> e

\* the strings of xs in one string, halving xs until one is left
RECURSIVE Concat(_)
Concat(xs) ==
    IF Len(xs) = 0 THEN ""
    ELSE IF Len(xs) = 1 THEN xs[1]
    ELSE Concat(SubSeq(xs, 1, Len(xs) \div 2)) \o Concat(SubSeq(xs, Len(xs) \div 2 + 1, Len(xs)))

\* the characters of a string literal from position i up to its closing quote
ParseChars(s, i) ==
    Bind(ClosingQuote(s, i), LAMBDA q :
        IF q = 0 THEN SyntaxError
        ELSE IF \E k \in i..(q - 1) :
                   \/ Ch(s, k) \in {"\n", "\r", "\t"}
                   \/ /\ EscapeAt(s, i, k)
                      /\ Ch(s, k + 1) \notin {"\"", "\\", "/", "n", "r", "t"}
        THEN SyntaxError
        ELSE Parsed(Str(Concat([n \in 1..(q - i) |->
                        IF EscapeAt(s, i, i + n - 1) THEN ""
                        ELSE IF n > 1 /\ EscapeAt(s, i, i + n - 2)
                             THEN Unescaped(Ch(s, i + n - 1))
                             ELSE Ch(s, i + n - 1)])),
                    q + 1))

\* -? (0 | [1-9] digits) (. digits)? ([eE] [+-]? digits)?
ParseNumber(s, i) ==
    LET neg == StartsAt(s, i, "-")
        j == IF neg THEN i + 1 ELSE i
        intEnd == IF StartsAt(s, j, "0") THEN j + 1 ELSE RunEnd(s, j, Digits)
        hasFrac == StartsAt(s, intEnd, ".")
        fracEnd == IF hasFrac THEN RunEnd(s, intEnd + 1, Digits) ELSE intEnd
        hasExp == fracEnd <= Len(s) /\ Ch(s, fracEnd) \in {"e", "E"}
        expNeg == StartsAt(s, fracEnd + 1, "-")
        expDigits == IF expNeg \/ StartsAt(s, fracEnd + 1, "+")
                     THEN fracEnd + 2 ELSE fracEnd + 1
        expEnd == IF hasExp THEN RunEnd(s, expDigits, Digits) ELSE fracEnd
        fracLen == IF hasFrac THEN fracEnd - intEnd - 1 ELSE 0
        mant == DigitsVal(SubSeq(s, j, intEnd - 1) \o SubSeq(s, intEnd + 1, fracEnd - 1))
        exp == IF hasExp THEN DigitsVal(SubSeq(s, expDigits, expEnd - 1)) ELSE 0
        scale == IF expNeg THEN fracLen + exp ELSE fracLen - exp
        m == IF scale < 0 THEN mant * Pow10(0 - scale) ELSE mant
        v == Normal(IF neg THEN 0 - m ELSE m, IF scale < 0 THEN 0 ELSE scale)
    IN  IF \/ intEnd = j
           \/ hasFrac /\ fracEnd = intEnd + 1
           \/ hasExp /\ expEnd = expDigits
        THEN SyntaxError
        ELSE Parsed(v, expEnd)

RECURSIVE ParseValue(_, _)
RECURSIVE ParseElements(_, _, _)
RECURSIVE ParseMembers(_, _, _)
\* a value at position i (white space before it already skipped)
ParseValue(s, i) ==
    IF i > Len(s) THEN SyntaxError
    ELSE LET c == Ch(s, i)
         IN  CASE c = "\"" -> ParseChars(s, i + 1)
               [] c = "{" ->
                    IF StartsAt(s, SkipJsonWs(s, i + 1), "}")
                    THEN Parsed(Obj(<<>>), SkipJsonWs(s, i + 1) + 1)
                    ELSE ParseMembers(s, SkipJsonWs(s, i + 1), Obj(<<>>))
               [] c = "[" ->
                    IF StartsAt(s, SkipJsonWs(s, i + 1), "]")
                    THEN Parsed(Arr(<<>>), SkipJsonWs(s, i + 1) + 1)
                    ELSE ParseElements(s, SkipJsonWs(s, i + 1), <<>>)
               [] c \in Digits \cup {"-"} -> ParseNumber(s, i)
               [] StartsAt(s, i, "true") -> Parsed(Bool(TRUE), i + 4)
               [] StartsAt(s, i, "false") -> Parsed(Bool(FALSE), i + 5)
               [] StartsAt(s, i, "null") -> Parsed(Null, i + 4)
               [] OTHER -> SyntaxError

\* the elements of an array from position i: value (, value)* ]
ParseElements(s, i, acc) ==
    Bind(ParseValue(s, i), LAMBDA r :
        IF ~r.ok THEN SyntaxError
        ELSE IF StartsAt(s, SkipJsonWs(s, r.p), "]")
        THEN Parsed(Arr(Append(acc, r.v)), SkipJsonWs(s, r.p) + 1)
        ELSE IF StartsAt(s, SkipJsonWs(s, r.p), ",")
        THEN ParseElements(s, SkipJsonWs(s, SkipJsonWs(s, r.p) + 1), Append(acc, r.v))
        ELSE SyntaxError)

\* one member "key" : value at position i, and the position after the white
\* space that follows it
ParseMember(s, i) ==
    Bind(IF StartsAt(s, i, "\"") THEN ParseChars(s, i + 1) ELSE SyntaxError, LAMBDA k :
        IF ~(k.ok /\ StartsAt(s, SkipJsonWs(s, k.p), ":")) THEN SyntaxError
        ELSE Bind(ParseValue(s, SkipJsonWs(s, SkipJsonWs(s, k.p) + 1)), LAMBDA r :
            IF ~r.ok THEN SyntaxError
            ELSE [ok |-> TRUE, k |-> k.v.s, v |-> r.v, p |-> SkipJsonWs(s, r.p)]))

\* the members of an object from position i: member (, member)* }
\* a repeated key keeps its first place and takes its last value
ParseMembers(s, i, acc) ==
    Bind(ParseMember(s, i), LAMBDA m :
        IF ~m.ok THEN SyntaxError
        ELSE IF StartsAt(s, m.p, "}") THEN Parsed(SetKey(acc, m.k, m.v), m.p + 1)
        ELSE IF StartsAt(s, m.p, ",")
        THEN ParseMembers(s, SkipJsonWs(s, m.p + 1), SetKey(acc, m.k, m.v))
        ELSE SyntaxError)

\* JSON.parse(s): [ok |-> FALSE] stands for the SyntaxError it throws
JSONparse(s) ==
    Bind(ParseValue(s, SkipJsonWs(s, 1)), LAMBDA r :
        IF r.ok /\ SkipJsonWs(s, r.p) = Len(s) + 1 THEN r ELSE SyntaxError)

\* JSON.stringify(v, null, 2) of a value nested under the indentation ind:
\* one member or element a line, two more spaces a level, {} and [] when empty
RECURSIVE StringifyIndented(_, _)
StringifyIndented(v, ind) ==
    CASE v.t = "object" ->
             LET kv == SelectSeq(v.kv, LAMBDA m : m[2].t \notin {"undefined", "function"})
             IN  IF kv = <<>> THEN "{}"
                 ELSE "{\n"
                      \o Concat([i \in 1..Len(kv) |->
                             (IF i > 1 THEN ",\n" ELSE "") \o ind \o "  \""
                             \o EscapeJson(kv[i][1]) \o "\": "
                             \o StringifyIndented(kv[i][2], ind \o "  ")])
                      \o "\n" \o ind \o "}"
      [] v.t = "array" ->
             IF v.xs = <<>> THEN "[]"
             ELSE "[\n"
                  \o Concat([i \in 1..Len(v.xs) |->
                         (IF i > 1 THEN ",\n" ELSE "") \o ind \o "  "
                         \o StringifyIndented(v.xs[i], ind \o "  ")])
                  \o "\n" \o ind \o "]"
      [] OTHER -> JSONstringify(v)

(***************************************************************************)
(* normalizeParserResponse: string candidates, and the whole function      *)
(***************************************************************************)
\* lines 979-986: the strings tried when the response itself has no shape
Candidates(resp) ==
    LET field(k) == IF IsStr(Get(resp, k)) THEN << Get(resp, k).s >> ELSE <<>>
    IN  (IF IsStr(resp) THEN << resp.s >> ELSE <<>>)
        \o (IF TypeofObject(resp)
            THEN field("extracted") \o field("output") \o field("text") \o field("content")
            ELSE <<>>)

\* s.match(/\{[\s\S]*\}/): from the first "{" to the last "}" after it
BraceSpan(s) ==
    LET opens == {i \in 1..Len(s) : Ch(s, i) = "{"}
        closes == {i \in 1..Len(s) : Ch(s, i) = "}" /\ opens # {} /\ i > Min(opens)}
    IN  IF closes = {} THEN [ok |-> FALSE]
        ELSE [ok |-> TRUE,
              m |-> SubSeq(s, Min(opens), CHOOSE i \in closes : \A j \in closes : j <= i)]

\* lines 990-1002: what the direct parse of s leaves in doc, and whether it
\* leaves the candidate loop (break); an exception inside the try is dropped
DirectParse(s, doc) ==
    Bind(JSONparse(s), LAMBDA r :
        IF ~(r.ok /\ Truthy(r.v) /\ TypeofObject(r.v)) THEN [doc |-> doc, brk |-> FALSE]
        ELSE IF IsArray(Get(r.v, "rules")) THEN [doc |-> Found(r.v), brk |-> TRUE]
        ELSE IF ObjectArray(r.v)
             THEN [doc |-> Found(Obj(<< <<"rules", r.v>> >>)), brk |-> TRUE]
        ELSE Bind(KeyLoop(r.v, Entries(r.v), 1), LAMBDA byKey :
                 IF byKey.found THEN [doc |-> byKey, brk |-> FALSE]
                 ELSE [doc |-> doc, brk |-> FALSE]))

\* lines 1004-1013: what the parse of the brace span of s leaves in doc
SubstringParse(s, doc) ==
    Bind(BraceSpan(s), LAMBDA m :
        Bind(IF m.ok THEN JSONparse(m.m) ELSE SyntaxError, LAMBDA r :
            IF ~(r.ok /\ Truthy(r.v)) THEN [doc |-> doc, brk |-> FALSE]
            ELSE IF IsArray(Get(r.v, "rules")) THEN [doc |-> Found(r.v), brk |-> TRUE]
            ELSE IF IsArray(r.v)
                 THEN [doc |-> Found(Obj(<< <<"rules", r.v>> >>)), brk |-> TRUE]
            ELSE [doc |-> doc, brk |-> FALSE]))

\* for(const s of candidates)
RECURSIVE CandidateLoop(_, _, _)
CandidateLoop(cands, i, doc) ==
    IF i > Len(cands) THEN doc
    ELSE IF cands[i] = "" THEN CandidateLoop(cands, i + 1, doc)
    ELSE Bind(DirectParse(cands[i], doc), LAMBDA d :
             IF d.brk THEN d.doc
             ELSE Bind(SubstringParse(cands[i], d.doc), LAMBDA e :
                      IF e.brk THEN e.doc ELSE CandidateLoop(cands, i + 1, e.doc)))

\* lines 1040-1047: for(const rr of doc.rules); reading rr.condition of a
\* null or undefined element raises a TypeError
SynthesizeRules(doc) ==
    LET rules == Get(doc, "rules")
    IN  IF ~IsArray(rules) THEN Found(doc)
        ELSE IF \E i \in 1..Len(rules.xs) : Nullish(rules.xs[i]) THEN Raised
        ELSE Found(SetKey(doc, "rules",
                          Arr([i \in 1..Len(rules.xs) |-> SynthesizeRule(rules.xs[i])])))

\* normalizeParserResponse(resp): {doc}, {error}, or a TypeError raised
normalizeParserResponse(resp) ==
    IF ~Truthy(resp) THEN [kind |-> "error", error |-> "empty_response"]
    ELSE Bind(ShapedDoc(resp), LAMBDA shaped :
        IF shaped.threw
        THEN [kind |-> "throw",
              error |-> "Cannot use 'in' operator to search for 'name' in null"]
        ELSE Bind(IF shaped.found THEN shaped
                  ELSE CandidateLoop(Candidates(resp), 1, NoDoc), LAMBDA found :
            IF ~found.found
            THEN [kind |-> "error", error |-> "no_rules_found_in_response"]
            ELSE Bind(SynthesizeRules(found.doc), LAMBDA synth :
                IF synth.threw
                THEN [kind |-> "throw",
                      error |-> "Cannot read properties of null (reading 'condition')"]
                ELSE [kind |-> "doc", doc |-> synth.doc])))

(***************************************************************************)
(* normalizeParserResponse: the response as the call leaves it.  A         *)
(* document found on the response itself (lines 961, 967, 973) shares its  *)
(* rule objects with the response, so the writes of line 1044 land in the  *)
(* response; the values parsed from a string candidate are new objects.    *)
(***************************************************************************)
\* the rules as the loop of lines 1041-1046 leaves them: it writes into each
\* rule up to the first null or undefined element, where it raises
SynthesizedInPlace(xs) ==
    LET stops == {i \in 1..Len(xs) : Nullish(xs[i])}
        last == IF stops = {} THEN Len(xs) ELSE Min(stops) - 1
    IN  [i \in 1..Len(xs) |-> IF i <= last THEN SynthesizeRule(xs[i]) ELSE xs[i]]

\* the number of the entry at which the key loop of lines 964-970 stops
\* (found, or the 'in' test raising), or 0 when it runs to its end
KeyLoopStop(es) ==
    LET hits == {i \in 1..Len(es) :
                    /\ ObjectArray(es[i][2])
                    /\ InRaises(es[i][2]) \/ RuleLike(es[i][2])}
    IN  IF hits = {} THEN 0 ELSE Min(hits)

\* resp with the value of its entry number i replaced
SetEntry(resp, i, v) ==
    IF IsArray(resp) THEN Arr([resp.xs EXCEPT ![i] = v])
    ELSE Obj([resp.kv EXCEPT ![i] = <<resp.kv[i][1], v>>])

\* the value of resp after normalizeParserResponse(resp) has returned or raised
ResponseAfter(resp) ==
    IF ~Truthy(resp) \/ ~TypeofObject(resp) THEN resp
    ELSE IF IsArray(Get(resp, "rules"))
    THEN SetKey(resp, "rules", Arr(SynthesizedInPlace(Get(resp, "rules").xs)))
    ELSE Bind(KeyLoopStop(Entries(resp)), LAMBDA i :
             IF i > 0
             THEN IF InRaises(Entries(resp)[i][2]) THEN resp
                  ELSE SetEntry(resp, i, Arr(SynthesizedInPlace(Entries(resp)[i][2].xs)))
             ELSE IF ObjectArray(resp) /\ ~InRaises(resp) /\ RuleLike(resp)
                  THEN Arr(SynthesizedInPlace(resp.xs))
                  ELSE resp)

(***************************************************************************)
(* alignParsedCategoriesWithDataset                                        *)
(***************************************************************************)
\* s.includes(sub)
Includes(s, sub) == \E i \in 1..(Len(s) - Len(sub) + 1) : StartsAt(s, i, sub)

\* lowerMap[low] after for(const c of cats){ lowerMap[c.toLowerCase()] = c; }:
\* the last category with that lower-case form.  lowerMap is a plain object:
\* assigning a string to its __proto__ stores nothing, and the keys __proto__
\* and constructor, when no category set them, are found on Object.prototype
\* (which has no enumerable property of its own)
LowerMapGet(cats, low) ==
    LET own == {i \in 1..Len(cats) : toLowerCase(cats[i]) = low}
    IN  IF low = "__proto__" THEN Obj(<<>>)
        ELSE IF own # {} THEN Str(cats[CHOOSE i \in own : \A j \in own : j <= i])
        ELSE IF low = "constructor" THEN ObjectFunction
        ELSE Undef

\* mapCategory(val) of lines 1059-1068
mapCategory(cats, val) ==
    IF ~Truthy(val) THEN val
    ELSE Bind(trim(ToStr(val)), LAMBDA s :
        IF s = "" THEN val
        ELSE Bind(toLowerCase(s), LAMBDA low :
            IF Truthy(LowerMapGet(cats, low)) THEN LowerMapGet(cats, low)
            ELSE LET hits == {i \in 1..Len(cats) :
                                 \/ Includes(toLowerCase(cats[i]), low)
                                 \/ Includes(low, toLowerCase(cats[i]))}
                 IN  IF hits = {} THEN val ELSE Str(cats[Min(hits)])))

\* condition.match(/(['"])([^'\"]+)\1/): the leftmost quote that is followed
\* by one or more characters other than quotes and then by the same quote
FirstQuoted(c) ==
    LET quotes == {j \in 1..Len(c) : Ch(c, j) \in {"'", "\""}}
        next(i) == Min({j \in quotes : j > i} \cup {Len(c) + 1})
        starts == {i \in quotes : next(i) > i + 1 /\ StartsAt(c, next(i), Ch(c, i))}
    IN  IF starts = {} THEN NoMatch
        ELSE Bind(Min(starts), LAMBDA i :
                 [ok |-> TRUE, i |-> i, j |-> next(i), q |-> Ch(c, i),
                  lit |-> SubSeq(c, i + 1, next(i) - 1)])

\* line 1072: if(r.category){ r.category = mapCategory(r.category); }
AlignCategory(cats, r) ==
    IF Truthy(Get(r, "category"))
    THEN SetKey(r, "category", mapCategory(cats, Get(r, "category")))
    ELSE r

\* lines 1074-1084: the first quoted literal of the condition replaced by its
\* mapped category (no category of the inputs holds a $ replacement pattern)
AlignCondition(cats, r) ==
    LET cond == Get(r, "condition")
    IN  IF ~(Truthy(cond) /\ IsStr(cond)) THEN r
        ELSE Bind(FirstQuoted(cond.s), LAMBDA m :
                 IF ~m.ok THEN r
                 ELSE Bind(mapCategory(cats, Str(m.lit)), LAMBDA mapped :
                          IF Truthy(mapped) /\ mapped # Str(m.lit)
                          THEN SetKey(r, "condition",
                                      Str(SubSeq(cond.s, 1, m.i - 1) \o m.q \o ToStr(mapped)
                                          \o m.q \o From(cond.s, m.j + 1)))
                          ELSE r))

\* the loop of lines 1070-1085 over the rules of out
AlignRules(cats, out) ==
    SetKey(out, "rules",
           Arr([i \in 1..Len(Get(out, "rules").xs) |->
                   AlignCondition(cats, AlignCategory(cats, Get(out, "rules").xs[i]))]))

\* (datasetCategories || []).map((c:any)=>String(c))
CategoryStrings(datasetCategories) ==
    IF Truthy(datasetCategories)
    THEN [i \in 1..Len(datasetCategories.xs) |-> ToStr(datasetCategories.xs[i])]
    ELSE <<>>

\* the aligner working on the document passed in instead of on a copy of it
alignParsedCategoriesWithDataset_InPlace(parsed, datasetCategories) ==
    IF ~Truthy(parsed) \/ ~IsArray(Get(parsed, "rules"))
    THEN [threw |-> FALSE, ret |-> parsed, parsed |-> parsed]
    ELSE IF Truthy(datasetCategories) /\ ~IsArray(datasetCategories)
    THEN [threw |-> TRUE, parsed |-> parsed]
    ELSE IF \E i \in 1..Len(Get(parsed, "rules").xs) : Nullish(Get(parsed, "rules").xs[i])
    THEN [threw |-> TRUE, parsed |-> parsed]
    ELSE Bind(AlignRules(CategoryStrings(datasetCategories), parsed), LAMBDA out :
             [threw |-> FALSE, ret |-> out, parsed |-> out])

\* alignParsedCategoriesWithDataset(parsed, datasetCategories): the value
\* returned (ret), the document passed in as the call leaves it (parsed), or a
\* TypeError raised: map of a value that is no array (line 1056), r.category
\* of a null rule (line 1072)
alignParsedCategoriesWithDataset(parsed, datasetCategories) ==
    IF ~Truthy(parsed) \/ ~IsArray(Get(parsed, "rules"))
    THEN [threw |-> FALSE, ret |-> parsed, parsed |-> parsed]
    ELSE IF Truthy(datasetCategories) /\ ~IsArray(datasetCategories)
    THEN [threw |-> TRUE, parsed |-> parsed]
    ELSE Bind(JSONparse(JSONstringify(parsed)).v, LAMBDA out :
             IF \E i \in 1..Len(Get(out, "rules").xs) : Nullish(Get(out, "rules").xs[i])
             THEN [threw |-> TRUE, parsed |-> parsed]
             ELSE [threw |-> FALSE,
                   ret |-> AlignRules(CategoryStrings(datasetCategories), out),
                   parsed |-> parsed])

(***************************************************************************)
(* parsePolicyText and onFile from the response on (lines 738-766 and      *)
(* 917-943, the same statements)                                           *)
(***************************************************************************)
\* lines 740-746: with a dataset selected and a rules array on the response,
\* j = alignParsedCategoriesWithDataset(j, cats || []); an exception is
\* caught and leaves j as it was
AlignedResponse(j, cats, ds) ==
    IF Truthy(ds) /\ Truthy(j) /\ Truthy(Get(j, "rules")) /\ IsArray(Get(j, "rules"))
    THEN Bind(alignParsedCategoriesWithDataset(j, IF Truthy(cats) THEN cats ELSE Arr(<<>>)),
              LAMBDA a : IF a.threw THEN [j |-> j, aligned |-> FALSE]
                         ELSE [j |-> a.ret, aligned |-> TRUE])
    ELSE [j |-> j, aligned |-> FALSE]

\* the stages a response went through, in the order they ran: the aligner
\* when it returned, the normalizer, and its synthesis loop (lines 1040-1047)
\* when a document with a rules array was found
StagesRun(aligned, norm) ==
    (IF aligned THEN << "align" >> ELSE << >>) \o << "normalize" >>
    \o (IF norm.kind = "error" THEN << >> ELSE << "synthesize" >>)

\* lines 738-766: what the flow writes, given the response j, the answer cats
\* of the categories request, datasetPath() and useOpenAI: the document set
\* into rulesDoc (when kind is "doc"), parsedJsonError, and the text written
\* to parsedJsonText (none when the normalizer raises with the heuristic
\* parser: the catch of line 762 writes the error only)
parsePolicyText(j, cats, ds, openAI) ==
    Bind(AlignedResponse(j, cats, ds), LAMBDA al :
    Bind(normalizeParserResponse(al.j), LAMBDA norm :
        [kind |-> norm.kind,
         stages |-> StagesRun(al.aligned, norm),
         doc |-> IF norm.kind = "doc" THEN norm.doc ELSE Undef,
         parsedJsonError |-> IF norm.kind = "doc" THEN Null ELSE Str(norm.error),
         text |-> IF openAI THEN << StringifyIndented(al.j, "") >>
                  ELSE IF norm.kind = "throw" THEN << >>
                  ELSE IF norm.kind = "doc" THEN << StringifyIndented(norm.doc, "") >>
                  ELSE << StringifyIndented(al.j, "") >>]))

(***************************************************************************)
(* applyParsedJson                                                         *)
(***************************************************************************)
\* the messages of lines 1094 and 1099, and those of the exceptions caught at
\* line 1106 (the text of a SyntaxError differs between engines; one text
\* stands for it)
EditErrors ==
    [noRulesArray |-> Str("Parsed JSON must be an object with a \"rules\" array"),
     ruleFields |-> Str("Each rule must have at least \"name\" and \"condition\" properties"),
     syntax |-> Str("Unexpected token in JSON"),
     nullRule |-> Str("Cannot read properties of null (reading 'name')")]

\* the outcome of the loop of lines 1097-1102 at the first rule that stops it
RuleCheck(rules) ==
    LET stops == {i \in 1..Len(rules) :
                     \/ Nullish(rules[i])
                     \/ ~Truthy(Get(rules[i], "name"))
                     \/ ~Truthy(Get(rules[i], "condition"))}
    IN  IF stops = {} THEN Null
        ELSE IF Nullish(rules[Min(stops)]) THEN EditErrors.nullRule
        ELSE EditErrors.ruleFields

\* applyParsedJson publishing the document before it has looked at the rules
applyParsedJson_SetBeforeRuleCheck(text, doc) ==
    Bind(JSONparse(text), LAMBDA r :
        IF ~r.ok THEN [rulesDoc |-> doc, parsedJsonError |-> EditErrors.syntax]
        ELSE IF ~Truthy(r.v) \/ ~TypeofObject(r.v) \/ ~IsArray(Get(r.v, "rules"))
        THEN [rulesDoc |-> doc, parsedJsonError |-> EditErrors.noRulesArray]
        ELSE [rulesDoc |-> r.v, parsedJsonError |-> RuleCheck(Get(r.v, "rules").xs)])

\* applyParsedJson() with parsedJsonText = text and rulesDoc() = doc: the
\* values it leaves in rulesDoc and parsedJsonError
applyParsedJson(text, doc) ==
    Bind(JSONparse(text), LAMBDA r :
        IF ~r.ok THEN [rulesDoc |-> doc, parsedJsonError |-> EditErrors.syntax]
        ELSE IF ~Truthy(r.v) \/ ~TypeofObject(r.v) \/ ~IsArray(Get(r.v, "rules"))
        THEN [rulesDoc |-> doc, parsedJsonError |-> EditErrors.noRulesArray]
        ELSE IF RuleCheck(Get(r.v, "rules").xs) # Null
        THEN [rulesDoc |-> doc, parsedJsonError |-> RuleCheck(Get(r.v, "rules").xs)]
        ELSE [rulesDoc |-> r.v, parsedJsonError |-> Null])

(***************************************************************************)
(* applyPolicyToRows                                                       *)
(***************************************************************************)
\* the label without the violation_message alternative
RuleLabel_NameOrJson(rule) ==
    IF Truthy(Get(rule, "name")) THEN Get(rule, "name") ELSE Str(JSONstringify(rule))

\* rule.name || rule.violation_message || JSON.stringify(rule)
RuleLabel(rule) ==
    IF Truthy(Get(rule, "name")) THEN Get(rule, "name")
    ELSE IF Truthy(Get(rule, "violation_message")) THEN Get(rule, "violation_message")
    ELSE Str(JSONstringify(rule))

\* one rule without the try/catch: an exception of the evaluation leaves the loop
TryRule_NoCatch(rule, r) ==
    Bind(evaluateRuleAgainstTx(rule, r), LAMBDA e :
        CASE e = "true" -> [threw |-> FALSE, push |-> << RuleLabel(rule) >>]
          [] e = "false" -> [threw |-> FALSE, push |-> <<>>]
          [] OTHER -> [threw |-> TRUE])

\* the try/catch around one rule: the entries it pushes onto violated; an
\* exception of the evaluation is caught and ignored
TryRule(rule, r) ==
    Bind(evaluateRuleAgainstTx(rule, r), LAMBDA e :
        CASE e = "true" -> [threw |-> FALSE, push |-> << RuleLabel(rule) >>]
          [] e = "false" -> [threw |-> FALSE, push |-> <<>>]
          [] OTHER -> [threw |-> FALSE, push |-> <<>>])

\* for(const rule of doc.rules): violated after the loop
RECURSIVE RuleLoop(_, _, _, _)
RuleLoop(rules, i, r, violated) ==
    IF i > Len(rules) THEN [threw |-> FALSE, violated |-> violated]
    ELSE Bind(TryRule(rules[i], r), LAMBDA t :
             IF t.threw THEN [threw |-> TRUE]
             ELSE RuleLoop(rules, i + 1, r, violated \o t.push))

\* the verdict with the reason joined by ", "
Verdict_JoinComma(violated) ==
    Obj(<< <<"compliant", Bool(Len(violated) = 0)>>,
           <<"violated_rules", Arr(violated)>>,
           <<"reason", Str(JoinWith(violated, ", "))>> >>)

\* { compliant, violated_rules: violated, reason: violated.join('; ') }
Verdict(violated) ==
    Obj(<< <<"compliant", Bool(Len(violated) = 0)>>,
           <<"violated_rules", Arr(violated)>>,
           <<"reason", Str(JoinWith(violated, "; "))>> >>)

\* { ...r, policy }
WithPolicy(r, policy) == SetKey(Obj(Spread(r)), "policy", policy)

\* the row the second rows.map callback returns for r
ScoredRow(rules, r) ==
    Bind(RuleLoop(rules, 1, r, <<>>), LAMBDA l :
        IF l.threw THEN [threw |-> TRUE]
        ELSE [threw |-> FALSE, row |-> WithPolicy(r, Verdict(l.violated))])

\* !doc || !Array.isArray(doc.rules) || doc.rules.length===0
NoRules(doc) ==
    \/ ~Truthy(doc)
    \/ ~IsArray(Get(doc, "rules"))
    \/ Len(Get(doc, "rules").xs) = 0

\* applyPolicyToRows returning the rows as they are when there are no rules
applyPolicyToRows_RowsWhenNoRules(doc, rows) ==
    IF NoRules(doc) THEN [threw |-> FALSE, ret |-> rows, rows |-> rows]
    ELSE Bind([k \in 1..Len(rows) |-> ScoredRow(Get(doc, "rules").xs, rows[k])],
              LAMBDA scored :
                  IF \E k \in 1..Len(rows) : scored[k].threw
                  THEN [threw |-> TRUE, rows |-> rows]
                  ELSE [threw |-> FALSE,
                        ret |-> [k \in 1..Len(rows) |-> scored[k].row],
                        rows |-> rows])

\* applyPolicyToRows writing the verdict into the rows of its argument
applyPolicyToRows_InPlace(doc, rows) ==
    Bind([k \in 1..Len(rows) |->
             IF NoRules(doc)
             THEN [threw |-> FALSE, row |-> WithPolicy(rows[k], Verdict(<<>>))]
             ELSE ScoredRow(Get(doc, "rules").xs, rows[k])],
         LAMBDA scored :
             IF \E k \in 1..Len(rows) : scored[k].threw
             THEN [threw |-> TRUE, rows |-> rows]
             ELSE [threw |-> FALSE,
                   ret |-> [k \in 1..Len(rows) |-> scored[k].row],
                   rows |-> [k \in 1..Len(rows) |-> scored[k].row]])

\* applyPolicyToRows(rows) with rulesDoc() = doc: the array returned (ret),
\* the argument array as the call leaves it (rows), or an exception raised
applyPolicyToRows(doc, rows) ==
    Bind([k \in 1..Len(rows) |->
             IF NoRules(doc)
             THEN [threw |-> FALSE, row |-> WithPolicy(rows[k], Verdict(<<>>))]
             ELSE ScoredRow(Get(doc, "rules").xs, rows[k])],
         LAMBDA scored :
             IF \E k \in 1..Len(rows) : scored[k].threw
             THEN [threw |-> TRUE, rows |-> rows]
             ELSE [threw |-> FALSE,
                   ret |-> [k \in 1..Len(rows) |-> scored[k].row],
                   rows |-> rows])

(***************************************************************************)
(* score from the response on (lines 1217-1229)                            *)
(***************************************************************************)
\* the first map callback (lines 1219-1225): fraud_score made a number, and a
\* compliant verdict given to a row that came without one
NormalizedRow(it) ==
    Bind(SetKey(it, "fraud_score",
                ToNumber(IF Nullish(Get(it, "fraud_score")) THEN IntNum(0)
                         ELSE Get(it, "fraud_score"))),
         LAMBDA row : IF Truthy(Get(row, "policy")) THEN row
                      ELSE SetKey(row, "policy", Verdict(<<>>)))

\* score keeping the verdict of a row that came with one
score_KeepServerVerdict(doc, j) ==
    IF Truthy(j) /\ ~IsArray(j) THEN [threw |-> TRUE]
    ELSE Bind(IF Truthy(j) THEN j.xs ELSE << >>, LAMBDA its :
        IF \E k \in 1..Len(its) : Nullish(its[k]) THEN [threw |-> TRUE]
        ELSE Bind(applyPolicyToRows(doc, [k \in 1..Len(its) |-> NormalizedRow(its[k])]),
                  LAMBDA a :
                      IF a.threw THEN [threw |-> TRUE]
                      ELSE [threw |-> FALSE,
                            processed |->
                                [k \in 1..Len(its) |->
                                    IF Truthy(Get(its[k], "policy"))
                                    THEN NormalizedRow(its[k]) ELSE a.ret[k]]]))

\* lines 1217-1229 with rulesDoc() = doc when applyPolicyToRows is called: the
\* rows assigned to originalScores, or a TypeError raised before the
\* assignment: map of a response that is no array (line 1219), fraud_score of
\* a null row (line 1221)
score(doc, j) ==
    IF Truthy(j) /\ ~IsArray(j) THEN [threw |-> TRUE]
    ELSE Bind(IF Truthy(j) THEN j.xs ELSE << >>, LAMBDA its :
        IF \E k \in 1..Len(its) : Nullish(its[k]) THEN [threw |-> TRUE]
        ELSE Bind(applyPolicyToRows(doc, [k \in 1..Len(its) |-> NormalizedRow(its[k])]),
                  LAMBDA a :
                      IF a.threw THEN [threw |-> TRUE]
                      ELSE [threw |-> FALSE, processed |-> a.ret]))

(***************************************************************************)
(* Bounds and inputs                                                       *)
(***************************************************************************)
MaxRules == 2
MaxRows == 2

SeqsUpTo(S, n) == UNION {[1..k -> S] : k \in 0..n}

\* rules as a policy parser returns them
TravelCap ==
    Obj(<< <<"name", Str("Travel cap")>>,
           <<"description", Str("Travel must not exceed 300")>>,
           <<"threshold", IntNum(300)>>,
           <<"category", Str("Travel")>> >>)
NoAlcohol ==
    Obj(<< <<"condition", Str("amount > 100 or category == 'Alcohol'")>>,
           <<"violation_message", Str("No alcohol")>> >>)
Unnamed == Obj(<< <<"condition", Str("amount >= 50.5")>> >>)
PolicyRules == {TravelCap, NoAlcohol, Unnamed}

RuleDoc(rules) ==
    Obj(<< <<"rules", Arr(rules)>>, <<"version", Str("1.0")>>, <<"source", Str("heuristic")>> >>)

\* responses of the policy parser: documents, the other accepted shapes, model
\* output carrying JSON in a string, and responses that hold no rules
Responses ==
    {RuleDoc(rs) : rs \in SeqsUpTo(PolicyRules, MaxRules)}
    \cup {Obj(<< <<"parsed", Arr(<< r >>)>> >>) : r \in {TravelCap}}
    \cup {Arr(<< r >>) : r \in {NoAlcohol}}
    \cup {Obj(<< <<"output",
                   Str("Sure, here is the JSON: {\"rules\":[{\"name\":\"R1\",\"condition\":\"amount > 50\"}]}")>> >>),
          Str("{\"policy\": [{\"name\": \"R2\", \"threshold\": 20.5, \"category\": \"Meals\"}]}"),
          RuleDoc(<< Null >>),
          Obj(<< <<"detail", Str("parser unavailable")>> >>),
          Null}

\* rows handed to applyPolicyToRows: with and without a verdict of the scoring
\* endpoint, and a null row, on which the evaluation of a rule raises
Row(id, amount, category) ==
    Obj(<< <<"txn_id", Str(id)>>, <<"amount", amount>>, <<"category", Str(category)>>,
           <<"fraud_score", Num(5, 1)>> >>)
ServerVerdict ==
    Obj(<< <<"compliant", Bool(FALSE)>>,
           <<"violated_rules", Arr(<< Str("Server rule") >>)>>,
           <<"reason", Str("Server rule")>> >>)
ScoreRows ==
    {Row("t1", IntNum(301), "Travel"),
     Obj(<< <<"txn_id", Str("t2")>>, <<"policy", ServerVerdict>>, <<"amount", IntNum(50)>>,
            <<"category", Str("Alcohol")>> >>),
     Null}

(***************************************************************************)
(* Inputs of the evaluator called on its own                               *)
(***************************************************************************)
AmountLiterals == {"300", "50.5", "0"}

\* every clause amount <op> N, with and without spaces around the operator
AmountClauses ==
    {"amount " \o AmountOps[k] \o " " \o n : k \in 1..Len(AmountOps), n \in AmountLiterals}
    \cup {"Amount" \o AmountOps[k] \o n : k \in 1..Len(AmountOps), n \in AmountLiterals}

ProbeConditions ==
    AmountClauses
    \cup {"category == 'Travel' and amount > 300",
          "amount > 100 or category == 'Alcohol'",
          "(amount > 100) OR (category = \"Alcohol\")",
          "category != 'Travel'  AND\tamount <= 50",
          "category == 'Alcohol' AND amount > 300",
          "merchant != 'Acme'",
          "merchant == 'Acme'",
          "merchant == ''",
          "city != ''",
          "the amount > 100 dollars",
          "amount > -5",
          "amount >> 5",
          "foo ~= bar",
          "amount > 100 or foo ~= bar",
          "foo ~= bar or category == 'Travel' and amount >> 5",
          "category == 'Travel' and foo ~= bar",
          "category == 'Travel' or",
          "category == 'Food and Drink' and amount > 100",
          "   ",
          ""}

ProbeRules ==
    {Obj(<< <<"name", Str("R")>>, <<"condition", Str(c)>> >>) : c \in ProbeConditions}
    \cup {Obj(<< <<"name", Str("R")>>, <<"condition", IntNum(5)>> >>),
          Obj(<< <<"name", Str("R")>>, <<"threshold", IntNum(5)>> >>),
          Str("amount > 1"),
          Undef,
          Null}

ProbeTxs ==
    {Row("p1", IntNum(301), "Travel"),
     Row("p2", IntNum(300), "Travel"),
     Row("p3", Num(505, 1), "Alcohol"),
     Row("p4", IntNum(0), "Food and Drink"),
     Row("p5", Str("42"), "Travel"),
     Obj(<< <<"txn_id", Str("p6")>>, <<"merchant", Str("")>> >>),
     Null}

\* evaluateRuleAgainstTx over the probes, tabulated once
Evaluated ==
    [x \in ProbeRules \X ProbeTxs |-> evaluateRuleAgainstTx(x[1], x[2])] @@ << >>

(***************************************************************************)
(* Inputs of condition synthesis: one-rule documents over every            *)
(* combination of threshold, category and condition                        *)
(***************************************************************************)
Field(k, v) == IF v = Undef THEN <<>> ELSE << <<k, v>> >>

RawRule(thr, cat, cond) ==
    Obj(<< <<"name", Str("Limit")>> >> \o Field("condition", cond)
        \o Field("threshold", thr) \o Field("category", cat))

RawRules ==
    {RawRule(thr, cat, cond) :
        thr \in {IntNum(300), Str("100"), Num(505, 1), Str("abc"), Str(""), Null, Undef},
        cat \in {Str("Travel"), Str("Food and Drink"), Str(""), Undef},
        cond \in {Undef, Str("Must not exceed the limit"), Str("amount > 10"),
                  Str("Meals AND drinks stay under the limit"), Str("limit != 5"),
                  Str(""), IntNum(5), Null}}

SynthResponses == {RuleDoc(<< r >>) : r \in RawRules}

SynthTxs ==
    {Row("s1", a, c) : a \in {IntNum(301), IntNum(300), Num(505, 1)},
                       c \in {"Travel", "Food and Drink"}}

(***************************************************************************)
(* Inputs of normalizeParserResponse called on its own                     *)
(***************************************************************************)
\* the text of a string candidate in each form the normalizer may meet; the
\* rule it carries is named after the candidate, so that the document
\* returned tells which candidate it came from
CandidateShapes == {"doc", "list", "keyed", "prose", "proseKeyed", "plain", "empty"}

CandidateText(shape, name) ==
    CASE shape = "doc" ->
             "{\"rules\":[{\"name\":\"" \o name \o "\",\"condition\":\"amount > 1\"}]}"
      [] shape = "list" ->
             "[{\"name\":\"" \o name \o "\",\"threshold\":20,\"category\":\"Meals\"}]"
      [] shape = "keyed" ->
             "{\"policy\":[{\"name\":\"" \o name \o "\",\"condition\":\"amount > 3\"}]}"
      [] shape = "prose" ->
             "Here you go: {\"rules\":[{\"name\":\"" \o name \o "\"}]} Done."
      [] shape = "proseKeyed" ->
             "Sure: {\"policy\":[{\"name\":\"" \o name \o "\",\"condition\":\"amount > 5\"}]}"
      [] shape = "plain" -> "no rules in " \o name
      [] OTHER -> ""

CandidateFields == <<"extracted", "output", "text", "content">>

\* objects with two neighbouring candidate fields, each holding a string of
\* one of the forms or absent, the later field of the list written first
CandidateResponses ==
    LET field(f, shape) ==
            IF shape = "absent" THEN <<>> ELSE << <<f, Str(CandidateText(shape, f))>> >>
    IN  {Obj(field(CandidateFields[k + 1], b) \o field(CandidateFields[k], a)) :
            k \in 1..3,
            a \in CandidateShapes \cup {"absent"},
            b \in CandidateShapes \cup {"absent"}}

\* each candidate string handed over as the response itself
StringResponses ==
    {Str(CandidateText(sh, CandidateFields[k])) : sh \in CandidateShapes, k \in 1..4}

\* responses with a shape of their own, with and without string candidates
\* beside it, and values that are no response at all
ShapedResponses ==
    {Obj(<< <<"rules", Arr(<< TravelCap >>)>>,
            <<"output", Str(CandidateText("doc", "output"))>> >>),
     Obj(<< <<"rules", Arr(<< NoAlcohol >>)>> >>),
     Obj(<< <<"rules", Arr(<< Unnamed >>)>>, <<"version", Str("2.0")>> >>),
     Obj(<< <<"rules", Arr(<<>>)>> >>),
     Obj(<< <<"rules", Arr(<<>>)>>, <<"output", Str(CandidateText("doc", "output"))>> >>),
     Obj(<< <<"rules", Str("none")>>, <<"extracted", Str(CandidateText("list", "extracted"))>> >>),
     Obj(<< <<"parsed", Arr(<< TravelCap, NoAlcohol >>)>>, <<"source", Str("openai")>> >>),
     Obj(<< <<"items", Arr(<< Obj(<< <<"id", IntNum(1)>> >>) >>)>>,
            <<"text", Str(CandidateText("doc", "text"))>> >>),
     Obj(<< <<"data", Arr(<< Null >>)>>, <<"text", Str(CandidateText("doc", "text"))>> >>),
     Arr(<< TravelCap, Null >>),
     Arr(<< Arr(<< TravelCap >>) >>),
     Arr(<<>>),
     IntNum(5), IntNum(0), Bool(TRUE), Str(""), Undef}

NormalizeInputs == Responses \cup CandidateResponses \cup StringResponses \cup ShapedResponses

(***************************************************************************)
(* Inputs of alignParsedCategoriesWithDataset called on its own            *)
(***************************************************************************)
\* documents of one rule.  Its category: as in the dataset but for case,
\* padded, a part of a dataset category, holding one, unknown, a property
\* name of every object, empty, absent.  Its condition: absent, with one or
\* two quoted literals, without any.  And values that hold no rules to align
AlignDocs ==
    LET categories ==
            {Str("meals"), Str(" MEALS "), Str("meal"), Str("Travel Meals"), Str("lodging"),
             Str("constructor"), Str(""), Undef}
        conditions ==
            {Undef,
             Str("category == 'meals' and amount > 20"),
             Str("category == \"travel\" or category == 'meals'"),
             Str("category == 'kids'"),
             Str("category != 'constructor' and merchant == 'meals'"),
             Str("amount > 5")}
        rule(cat, cond) ==
            Obj(<< <<"name", Str("R")>> >> \o Field("category", cat) \o Field("condition", cond))
    IN  {RuleDoc(<< rule(cat, cond) >>) : cat \in categories, cond \in conditions}
        \cup {RuleDoc(<< rule(Str("meal"), Undef), TravelCap >>),
              RuleDoc(<< Null >>),
              Obj(<< <<"rules", Str("none")>>, <<"category", Str("meals")>> >>),
              Null}

\* the distinct categories of the dataset as the server lists them, no list,
\* and an error object in place of the list
DatasetCategories ==
    {Arr(<< Str("Meals"), Str("Travel") >>),
     Arr(<< Str("Travel"), Str("Meals") >>),
     Arr(<< Str("Meals"), Str("MEALS") >>),
     Arr(<< Str("Meal"), Str("Meals") >>),
     Arr(<< Str("Team Meals"), Str("Meals Out") >>),
     Arr(<< Str("Kids' Meals") >>),
     Arr(<<>>),
     Null,
     Obj(<< <<"detail", Str("dataset not found")>> >>)}

(***************************************************************************)
(* Inputs of the two orders of aligning and normalizing                    *)
(***************************************************************************)
\* documents whose rules carry a threshold and a category, with no condition,
\* a condition in prose, or a condition in code
PipelineDocs ==
    LET categories ==
            {Str("meals"), Str(" MEALS "), Str("meal"), Str("kids' meals"), Str("lodging"),
             Str("constructor")}
        conditions ==
            {Undef,
             Str("Keep 'meals' under the limit"),
             Str("category == 'meals' and amount > 20")}
        rule(cat, cond) ==
            Obj(<< <<"name", Str("R")>>, <<"threshold", IntNum(20)>>, <<"category", cat>> >>
                \o Field("condition", cond))
    IN  {RuleDoc(<< rule(cat, cond) >>) : cat \in categories, cond \in conditions}
        \cup {RuleDoc(<< rule(Str("meal"), Undef), TravelCap >>),
              RuleDoc(<< NoAlcohol >>),
              RuleDoc(<< Null >>),
              RuleDoc(<< >>)}

\* lists of dataset categories; a dataset with rows that have no category
\* lists the empty string
PipelineCategories ==
    {cs \in DatasetCategories : IsArray(cs)}
        \cup {Arr(<< Str(""), Str("Meals") >>), Arr(<< Str("Lodging"), Str("Meals") >>)}

(***************************************************************************)
(* Inputs of the parse flow with a dataset                                 *)
(***************************************************************************)
MealsCap ==
    Obj(<< <<"name", Str("Meals cap")>>, <<"threshold", IntNum(20)>>,
           <<"category", Str("meals")>> >>)

\* responses of the parser: a document, the same rules under a key and as a
\* bare array, a document with a condition in code, a document with a null
\* rule, and responses that hold no rules
ParseResponses ==
    {RuleDoc(<< MealsCap >>),
     Obj(<< <<"parsed", Arr(<< MealsCap >>)>> >>),
     Arr(<< MealsCap >>),
     RuleDoc(<< NoAlcohol >>),
     RuleDoc(<< Null >>),
     Obj(<< <<"detail", Str("parser unavailable")>> >>),
     Null}

\* what the categories request answers
ParseCategories ==
    {Arr(<< Str("Meals"), Str("Travel") >>),
     Null,
     Obj(<< <<"detail", Str("dataset not found")>> >>)}

\* the path generateSynth receives: j.path, undefined in an error response
DatasetPaths == {Str("data/synth.csv"), Undef}

(***************************************************************************)
(* Inputs of score: what the scoring endpoint answers                      *)
(***************************************************************************)
\* the policies parsed before scoring: two rules, no rule, no document
ScorePolicies ==
    {RuleDoc(<< NoAlcohol, TravelCap >>), RuleDoc(<< >>),
     Obj(<< <<"detail", Str("parser unavailable")>> >>)}

\* arrays of rows with and without a verdict of the server, a null answer and
\* an error object
ScoreResponses ==
    {Arr(rows) : rows \in SeqsUpTo(ScoreRows, MaxRows)}
    \cup {Null, Obj(<< <<"detail", Str("dataset not found")>> >>)}

(***************************************************************************)
(* Inputs of the editor: the texts a user may leave in the text area       *)
(***************************************************************************)
EditedTexts ==
    {"{\"rules\":[{\"name\":\"Edited\",\"condition\":\"amount > 7\"}]}",
     "{\n  \"rules\": [\n    {\"name\": \"A\", \"condition\": \"amount > 1\"},\n    {\"name\": \"B\", \"condition\": \"category == 'Travel'\"}\n  ],\n  \"version\": \"2.0\"\n}",
     "{\"rules\":[]}",
     "{\"rules\":[{\"name\":\"A\",\"condition\":\"amount > 1\"},{\"name\":\"B\"}]}",
     "{\"rules\":[{\"condition\":\"amount > 1\"}]}",
     "{\"rules\":[{\"name\":\"\",\"condition\":\"amount > 1\"}]}",
     "{\"rules\":[null]}",
     "{\"rules\":[5]}",
     "{\"rules\":{\"name\":\"A\",\"condition\":\"amount > 1\"}}",
     "[{\"name\":\"A\",\"condition\":\"amount > 1\"}]",
     "{\"name\":\"A\"}",
     "42",
     "null",
     "{\"rules\":[{\"name\":\"A\",\"condition\":\"amount > 1\"}]",
     "no rules",
     ""}

\* the responses parsed before the editor is used
EditedResponses ==
    {RuleDoc(<< TravelCap >>), RuleDoc(<< NoAlcohol, Unnamed >>),
     Obj(<< <<"detail", Str("parser unavailable")>> >>), RuleDoc(<< Null >>)}

(***************************************************************************)
(* State                                                                   *)
(***************************************************************************)
VARIABLES
    rulesDoc,           \* the signal rulesDoc: the active rule document, or null
    parsedJsonError,    \* the message of the last parse failure, or null
    parsedJsonText,     \* the text of the editor (the text area of line 253)
    parsedFrom,         \* the response the active document was normalized from
    dataset,            \* the rows array handed to applyPolicyToRows
    datasetPath,        \* the signal datasetPath: the dataset CSV, or null
    useOpenAI,          \* the field useOpenAI: the parser chosen
    originalScores,     \* the field originalScores: the rows of the last score()
    call                \* the last operation with its arguments and result

vars ==
    << rulesDoc, parsedJsonError, parsedJsonText, parsedFrom, dataset, datasetPath,
       useOpenAI, originalScores, call >>

\* the fields the parse and score flows read or write beside the document
settings == << datasetPath, useOpenAI, originalScores >>

Init ==
    /\ rulesDoc = Null
    /\ parsedJsonError = Null
    /\ parsedJsonText = ""
    /\ parsedFrom = Undef
    /\ dataset = <<>>
    /\ datasetPath = Null
    /\ useOpenAI = FALSE
    /\ originalScores = <<>>
    /\ call = [op |-> "none"]

\* normalizeParserResponse over the responses, tabulated once
Normalized ==
    [j \in Responses \cup SynthResponses \cup NormalizeInputs \cup EditedResponses |->
        normalizeParserResponse(j)] @@ << >>

\* lines 759-760: the text the parse puts in the editor, tabulated once: the
\* document when there is one, else the response
EditorText ==
    [j \in Responses \cup SynthResponses \cup EditedResponses |->
        StringifyIndented(IF Normalized[j].kind = "doc" THEN Normalized[j].doc ELSE j,
                          "")] @@ << >>

\* parsePolicyText / onFile with the heuristic parser and no dataset CSV
\* selected (datasetPath() is null, so the response is not aligned): normalize
\* j, publish the document, put it in the editor; an exception raised by the
\* normalizer is caught at line 762 and leaves the editor as it is
ParsePolicy(j) ==
    /\ ~Truthy(datasetPath) /\ ~useOpenAI
    /\ \E norm \in {Normalized[j]} :
           /\ rulesDoc' = IF norm.kind = "doc" THEN norm.doc ELSE rulesDoc
           /\ parsedJsonError' = IF norm.kind = "doc" THEN Null ELSE Str(norm.error)
           /\ parsedJsonText' = IF norm.kind = "throw" THEN parsedJsonText ELSE EditorText[j]
           /\ parsedFrom' = IF norm.kind = "doc" THEN j ELSE parsedFrom
           /\ call' = [op |-> "parsePolicyText", kind |-> norm.kind]
    /\ UNCHANGED << settings, dataset >>

\* a row joins the array the next applyPolicyToRows call receives
LoadRow(r) ==
    /\ Len(dataset) < MaxRows
    /\ dataset' = Append(dataset, r)
    /\ call' = [op |-> "load"]
    /\ UNCHANGED << settings, rulesDoc, parsedJsonError, parsedJsonText, parsedFrom >>

\* applyPolicyToRows(rows) on the rows of the dataset
ApplyPolicy ==
    \E a \in {applyPolicyToRows(rulesDoc, dataset)} :
        /\ call' = IF a.threw
                   THEN [op |-> "applyPolicyToRows", doc |-> rulesDoc, arg |-> dataset,
                         threw |-> TRUE]
                   ELSE [op |-> "applyPolicyToRows", doc |-> rulesDoc, arg |-> dataset,
                         threw |-> FALSE, ret |-> a.ret]
        /\ dataset' = a.rows
        /\ UNCHANGED << settings, rulesDoc, parsedJsonError, parsedJsonText, parsedFrom >>

\* evaluateRuleAgainstTx(rule, tx) called on its own
Evaluate(rule, tx) ==
    /\ call' = [op |-> "evaluateRuleAgainstTx", rule |-> rule, tx |-> tx,
                ret |-> Evaluated[<<rule, tx>>]]
    /\ UNCHANGED << settings, rulesDoc, parsedJsonError, parsedJsonText, parsedFrom, dataset >>

\* evaluateRuleAgainstTx(rule, tx) on rule number i of the active document, as
\* the rule loop of applyPolicyToRows calls it
EvaluateActive(i, tx) ==
    /\ Truthy(rulesDoc) /\ IsArray(Get(rulesDoc, "rules"))
    /\ i \in 1..Len(Get(rulesDoc, "rules").xs)
    /\ \E rule \in {Get(rulesDoc, "rules").xs[i]} :
           call' = [op |-> "evaluateRuleAgainstTx", rule |-> rule, tx |-> tx,
                    ret |-> evaluateRuleAgainstTx(rule, tx), index |-> i]
    /\ UNCHANGED << settings, rulesDoc, parsedJsonError, parsedJsonText, parsedFrom, dataset >>

\* normalizeParserResponse(resp) called on its own: the value returned (ret)
\* and the response as the call leaves it (after)
Normalize(resp) ==
    /\ call' = [op |-> "normalizeParserResponse", arg |-> resp, ret |-> Normalized[resp],
                after |-> ResponseAfter(resp)]
    /\ UNCHANGED << settings, rulesDoc, parsedJsonError, parsedJsonText, parsedFrom, dataset >>

\* normalizeParserResponse called again on the document it has just returned
Renormalize ==
    /\ call.op = "normalizeParserResponse"
    /\ call.ret.kind = "doc"
    /\ \E doc \in {call.ret.doc} :
           call' = [op |-> "normalizeParserResponse", arg |-> doc,
                    ret |-> normalizeParserResponse(doc), after |-> ResponseAfter(doc),
                    first |-> call.arg]
    /\ UNCHANGED << settings, rulesDoc, parsedJsonError, parsedJsonText, parsedFrom, dataset >>

\* the aligner called on its own: the document and the categories it is about
\* to be called with are drawn at the start
InitAlign ==
    /\ rulesDoc = Null
    /\ parsedJsonError = Null
    /\ parsedJsonText = ""
    /\ parsedFrom = Undef
    /\ dataset = <<>>
    /\ datasetPath = Null
    /\ useOpenAI = FALSE
    /\ originalScores = <<>>
    /\ call \in {[op |-> "pending", arg |-> parsed, cats |-> cats] :
                    parsed \in AlignDocs, cats \in DatasetCategories}

\* alignParsedCategoriesWithDataset(parsed, datasetCategories): the value
\* returned (ret) and the document as the call leaves it (after)
Align ==
    /\ call.op = "pending"
    /\ \E a \in {alignParsedCategoriesWithDataset(call.arg, call.cats)} :
           call' = IF a.threw
                   THEN [op |-> "alignParsedCategoriesWithDataset", arg |-> call.arg,
                         cats |-> call.cats, threw |-> TRUE, after |-> a.parsed]
                   ELSE [op |-> "alignParsedCategoriesWithDataset", arg |-> call.arg,
                         cats |-> call.cats, threw |-> FALSE, ret |-> a.ret,
                         after |-> a.parsed]
    /\ UNCHANGED << settings, rulesDoc, parsedJsonError, parsedJsonText, parsedFrom, dataset >>

\* the document just returned aligned once more against the same categories
Realign ==
    /\ call.op = "alignParsedCategoriesWithDataset"
    /\ ~call.threw
    /\ "first" \notin DOMAIN call
    /\ \E a \in {alignParsedCategoriesWithDataset(call.ret, call.cats)} :
           call' = IF a.threw
                   THEN [op |-> "alignParsedCategoriesWithDataset", arg |-> call.ret,
                         cats |-> call.cats, threw |-> TRUE, after |-> a.parsed,
                         first |-> call.arg]
                   ELSE [op |-> "alignParsedCategoriesWithDataset", arg |-> call.ret,
                         cats |-> call.cats, threw |-> FALSE, ret |-> a.ret,
                         after |-> a.parsed, first |-> call.arg]
    /\ UNCHANGED << settings, rulesDoc, parsedJsonError, parsedJsonText, parsedFrom, dataset >>

\* the two orders are applied to a document and a category list drawn at the
\* start
InitPipeline ==
    /\ rulesDoc = Null
    /\ parsedJsonError = Null
    /\ parsedJsonText = ""
    /\ parsedFrom = Undef
    /\ dataset = <<>>
    /\ datasetPath = Null
    /\ useOpenAI = FALSE
    /\ originalScores = <<>>
    /\ call \in {[op |-> "pending", arg |-> parsed, cats |-> cats] :
                    parsed \in PipelineDocs, cats \in PipelineCategories}

\* lines 744-745 and 757: j = alignParsedCategoriesWithDataset(j, cats), then
\* normalizeParserResponse(j)
alignThenNormalize(j, cats) ==
    Bind(alignParsedCategoriesWithDataset(j, cats), LAMBDA a :
        IF a.threw THEN [kind |-> "throw"] ELSE normalizeParserResponse(a.ret))

\* the order of the description: normalizeParserResponse(j), then
\* alignParsedCategoriesWithDataset on the document it returns
normalizeThenAlign(j, cats) ==
    Bind(normalizeParserResponse(j), LAMBDA norm :
        IF norm.kind # "doc" THEN norm
        ELSE Bind(alignParsedCategoriesWithDataset(norm.doc, cats), LAMBDA a :
                 IF a.threw THEN [kind |-> "throw"] ELSE [kind |-> "doc", doc |-> a.ret]))

\* the order of the parse flow applied to the pair drawn
AlignThenNormalize ==
    /\ call.op = "pending"
    /\ call' = [op |-> "alignThenNormalize", arg |-> call.arg, cats |-> call.cats,
                ret |-> alignThenNormalize(call.arg, call.cats)]
    /\ UNCHANGED << settings, rulesDoc, parsedJsonError, parsedJsonText, parsedFrom, dataset >>

\* the other order applied to the same pair
NormalizeThenAlign ==
    /\ call.op = "alignThenNormalize"
    /\ call' = [op |-> "normalizeThenAlign", arg |-> call.arg, cats |-> call.cats,
                flow |-> call.ret, ret |-> normalizeThenAlign(call.arg, call.cats)]
    /\ UNCHANGED << settings, rulesDoc, parsedJsonError, parsedJsonText, parsedFrom, dataset >>

\* generateSynth: the path of the generated dataset becomes datasetPath
GenerateSynth(path) ==
    /\ datasetPath' = path
    /\ call' = [op |-> "generateSynth"]
    /\ UNCHANGED << rulesDoc, parsedJsonError, parsedJsonText, parsedFrom, dataset,
                    useOpenAI, originalScores >>

\* the check box bound to useOpenAI (line 212)
ToggleOpenAI ==
    /\ useOpenAI' = ~useOpenAI
    /\ call' = [op |-> "toggle"]
    /\ UNCHANGED << rulesDoc, parsedJsonError, parsedJsonText, parsedFrom, dataset,
                    datasetPath, originalScores >>

\* parsePolicyText over the responses, answers and settings, tabulated once
ParseFlow ==
    [x \in ParseResponses \X ParseCategories \X ({Null} \cup DatasetPaths) \X BOOLEAN |->
        parsePolicyText(x[1], x[2], x[3], x[4])] @@ << >>

\* parsePolicyText() from the response j on, with either parser and with or
\* without a dataset; cats is the answer of the categories request
ParsePolicyText(j, cats) ==
    /\ \E p \in {ParseFlow[<< j, cats, datasetPath, useOpenAI >>]} :
           /\ rulesDoc' = IF p.kind = "doc" THEN p.doc ELSE rulesDoc
           /\ parsedJsonError' = p.parsedJsonError
           /\ parsedJsonText' = IF p.text = << >> THEN parsedJsonText ELSE p.text[1]
           /\ parsedFrom' = IF p.kind = "doc" THEN j ELSE parsedFrom
           /\ call' = [op |-> "parsePolicyText", kind |-> p.kind, j |-> j, cats |-> cats,
                       stages |-> p.stages, before |-> rulesDoc]
    /\ UNCHANGED << dataset, settings >>

\* onFile() for a text file that was read: line 805 empties the editor, the
\* rest is the flow of parsePolicyText (lines 917-943)
OnFile(j, cats) ==
    /\ \E p \in {ParseFlow[<< j, cats, datasetPath, useOpenAI >>]} :
           /\ rulesDoc' = IF p.kind = "doc" THEN p.doc ELSE rulesDoc
           /\ parsedJsonError' = p.parsedJsonError
           /\ parsedJsonText' = IF p.text = << >> THEN "" ELSE p.text[1]
           /\ parsedFrom' = IF p.kind = "doc" THEN j ELSE parsedFrom
           /\ call' = [op |-> "onFile", kind |-> p.kind, j |-> j, cats |-> cats,
                       stages |-> p.stages, before |-> rulesDoc]
    /\ UNCHANGED << dataset, settings >>

\* score() from the response j of the scoring endpoint on; the preflight of
\* lines 1188-1204 has found a source to score.  rulesDoc is read when
\* applyPolicyToRows is called, after the response has arrived
Score(j) ==
    /\ \E sc \in {score(rulesDoc, j)} :
           /\ originalScores' = IF sc.threw THEN originalScores ELSE sc.processed
           /\ call' = [op |-> "score", j |-> j, threw |-> sc.threw]
    /\ UNCHANGED << rulesDoc, parsedJsonError, parsedJsonText, parsedFrom, dataset,
                    datasetPath, useOpenAI >>

\* the user types in the text area bound to parsedJsonText (line 253)
EditParsedJson(text) ==
    /\ parsedJsonText' = text
    /\ call' = [op |-> "edit"]
    /\ UNCHANGED << settings, rulesDoc, parsedJsonError, parsedFrom, dataset >>

\* applyParsedJson() on the text of the editor
ApplyParsedJson ==
    /\ \E a \in {applyParsedJson(parsedJsonText, rulesDoc)} :
           /\ rulesDoc' = a.rulesDoc
           /\ parsedJsonError' = a.parsedJsonError
    /\ call' = [op |-> "applyParsedJson", text |-> parsedJsonText, before |-> rulesDoc]
    /\ UNCHANGED << settings, parsedJsonText, parsedFrom, dataset >>

(***************************************************************************)
(* Specifications                                                          *)
(***************************************************************************)
\* the policy flow: parse, load transactions, apply the policy
PolicyNext ==
    \/ \E j \in Responses : ParsePolicy(j)
    \/ \E r \in ScoreRows : LoadRow(r)
    \/ ApplyPolicy

\* the evaluator, called on its own
EvalNext == \E rule \in ProbeRules, tx \in ProbeTxs : Evaluate(rule, tx)

\* synthesis followed by evaluation: parse a one-rule document, evaluate its rule
SynthNext ==
    \/ \E j \in SynthResponses : ParsePolicy(j)
    \/ \E tx \in SynthTxs : EvaluateActive(1, tx)

\* the normalizer, called on its own and again on its own result
NormalizeNext ==
    \/ \E resp \in NormalizeInputs : Normalize(resp)
    \/ Renormalize

\* the aligner, called on its own and again on its own result
AlignNext == Align \/ Realign

\* the editor: parse a policy, edit the text, resubmit it
EditNext ==
    \/ \E j \in EditedResponses : ParsePolicy(j)
    \/ \E text \in EditedTexts : EditParsedJson(text)
    \/ ApplyParsedJson

\* the two orders of aligning and normalizing, one after the other
PipelineNext == AlignThenNormalize \/ NormalizeThenAlign

\* the parse flow with either parser, with and without a dataset
ParseNext ==
    \/ \E path \in DatasetPaths : GenerateSynth(path)
    \/ ToggleOpenAI
    \/ \E j \in ParseResponses, cats \in ParseCategories : ParsePolicyText(j, cats)
    \/ \E j \in ParseResponses, cats \in ParseCategories : OnFile(j, cats)

\* scoring: parse a policy, score the dataset
ScoreNext ==
    \/ \E j \in ScorePolicies : ParsePolicy(j)
    \/ \E j \in ScoreResponses : Score(j)

Next ==
    \/ PolicyNext \/ EvalNext \/ SynthNext \/ NormalizeNext \/ AlignNext \/ EditNext
    \/ PipelineNext \/ ParseNext \/ ScoreNext

Spec == Init /\ [][Next]_vars
SpecPolicy == Init /\ [][PolicyNext]_vars
SpecEval == Init /\ [][EvalNext]_vars
SpecSynth == Init /\ [][SynthNext]_vars
SpecNormalize == Init /\ [][NormalizeNext]_vars
SpecAlign == InitAlign /\ [][AlignNext]_vars
SpecEdit == Init /\ [][EditNext]_vars
SpecPipeline == InitPipeline /\ [][PipelineNext]_vars
SpecParse == Init /\ [][ParseNext]_vars
SpecScore == Init /\ [][ScoreNext]_vars

(***************************************************************************)
(* Properties of evaluateRuleAgainstTx (SpecEval)                          *)
(***************************************************************************)
Evaluating == call.op = "evaluateRuleAgainstTx"
TxRecord == call.tx.t = "object"
HasCondition == call.rule.t = "object" /\ IsStr(Get(call.rule, "condition"))
Condition == Get(call.rule, "condition").s

ClauseHolds(c) == ClauseResult(c, call.tx) = "sat"
OrGroups == SplitTrim(trim(Condition), "or")
Clauses(g) == SplitTrim(g, "and")
GroupHolds(g) == \A k \in 1..Len(Clauses(g)) : ClauseHolds(Clauses(g)[k])

\* s split on the literal separator sep, compared without regard to case
RECURSIVE SplitLiteral(_, _, _)
SplitLiteral(s, sep, start) ==
    LET is == {i \in start..Len(s) : StartsAtCI(s, i, sep)}
    IN  IF is = {} THEN << trim(SubSeq(s, start, Len(s))) >>
        ELSE << trim(SubSeq(s, start, Min(is) - 1)) >>
             \o SplitLiteral(s, sep, Min(is) + Len(sep))

LiteralGroups == SplitLiteral(trim(Condition), " or ", 1)
LiteralClauses(g) == SplitLiteral(g, " and ", 1)

\* C2, as stated: the evaluator returns true iff some group of the condition
\* split on the literal " or " has every clause of its split on the literal
\* " and " satisfied by the transaction.
C2_LiteralSeparators ==
    (Evaluating /\ TxRecord /\ HasCondition) =>
        ((call.ret = "true") <=>
            \E k \in 1..Len(LiteralGroups) :
                \A n \in 1..Len(LiteralClauses(LiteralGroups[k])) :
                    ClauseHolds(LiteralClauses(LiteralGroups[k])[n]))

\* C2, amended: the evaluator returns true iff at least one OR-group has every
\* one of its clauses satisfied by the transaction, where the OR-groups are the
\* condition split at the word "or" and the clauses the group split at the word
\* "and", each in any letter case and between runs of white space of any kind.
C2_OrOfAnd ==
    (Evaluating /\ TxRecord /\ HasCondition) =>
        ((call.ret = "true") <=> \E k \in 1..Len(OrGroups) : GroupHolds(OrGroups[k]))

\* a second OR-group decides: the first group fails, the call returns true
C2_SecondGroupDecides ==
    /\ Evaluating /\ TxRecord /\ HasCondition
    /\ Len(OrGroups) = 2
    /\ ~GroupHolds(OrGroups[1])
    /\ GroupHolds(OrGroups[2])
    /\ call.ret = "true"

Unrecognised(c) ==
    LET b == StripParens(c)
    IN  ~AmountRe(b).ok /\ ~StringRe(b).ok /\ ~LooseRe(b).ok
HasUnrecognised(g) == \E k \in 1..Len(Clauses(g)) : Unrecognised(Clauses(g)[k])

\* C3: an AND-group with a clause of none of the three recognised forms does
\* not match, and a condition all of whose OR-groups have such a clause
\* returns false and raises nothing.
C3_UnknownClauseFailsClosed ==
    (Evaluating /\ TxRecord /\ HasCondition) =>
        /\ \A k \in 1..Len(OrGroups) :
              HasUnrecognised(OrGroups[k]) =>
                  AndLoop(Clauses(OrGroups[k]), 1, call.tx) = "unsat"
        /\ (\A k \in 1..Len(OrGroups) : HasUnrecognised(OrGroups[k])) =>
              call.ret = "false"

\* an unrecognised clause after a satisfied one: the call returns false
C3_UnknownAfterSatisfied ==
    /\ Evaluating /\ TxRecord /\ HasCondition
    /\ \A k \in 1..Len(OrGroups) : HasUnrecognised(OrGroups[k])
    /\ \E k \in 1..Len(OrGroups) : ClauseHolds(Clauses(OrGroups[k])[1])
    /\ call.ret = "false"

NoCondition ==
    \/ Nullish(call.rule)
    \/ ~HasKey(call.rule, "condition")
    \/ Get(call.rule, "condition") = Str("")

\* C4: evaluated against a transaction record, evaluateRuleAgainstTx returns a
\* boolean and never throws, whatever the condition; an empty or absent
\* condition returns false.
C4_EvaluateTotal ==
    (Evaluating /\ TxRecord) =>
        /\ call.ret \in {"true", "false"}
        /\ NoCondition => call.ret = "false"

\* a clause on a field the transaction does not have is evaluated to a boolean
C4_MissingFieldEvaluated ==
    /\ Evaluating /\ TxRecord /\ HasCondition
    /\ StringRe(Condition).ok
    /\ ~HasKey(call.tx, StringRe(Condition).field)
    /\ call.ret = "true"

\* the condition is one string clause on a field the transaction lacks
AbsentFieldClause ==
    /\ Evaluating /\ TxRecord /\ HasCondition
    /\ Len(OrGroups) = 1
    /\ Len(Clauses(OrGroups[1])) = 1
    /\ ~AmountRe(Condition).ok
    /\ StringRe(Condition).ok
    /\ ~HasKey(call.tx, StringRe(Condition).field)

\* C27: a string clause whose field is absent from the transaction is
\* evaluated against the empty string: with != it is satisfied exactly when
\* the literal is not empty, so by every transaction without the field, and
\* with == or = only when the literal is the empty one
C27_AbsentFieldIsEmpty ==
    AbsentFieldClause =>
        ((call.ret = "true") <=>
            IF StringRe(Condition).op = "!="
            THEN StringRe(Condition).val # ""
            ELSE StringRe(Condition).val = "")

\* a rule whose clause compares an absent field with == to the empty literal
\* is reported as violated
C27_EmptyLiteralEqual ==
    /\ AbsentFieldClause
    /\ StringRe(Condition).op = "=="
    /\ StringRe(Condition).val = ""
    /\ call.ret = "true"

\* amounts and literals of the probes in tenths
Tenths(v) == IF v.e = 0 THEN 10 * v.m ELSE v.m
LiteralTenths(n) ==
    CASE n = "300" -> 3000
      [] n = "50.5" -> 505
      [] n = "0" -> 0
Relation(op, a, n) ==
    CASE op \in {"==", "="} -> a = n
      [] op = "!=" -> a # n
      [] op = "<" -> a < n
      [] op = "<=" -> a <= n
      [] op = ">" -> a > n
      [] op = ">=" -> a >= n

\* C5: a clause amount <op> N is satisfied exactly when the amount of the
\* transaction stands in the numeric relation op to N, = meaning ==; an amount
\* equal to N does not satisfy amount > N.
C5_AmountRelation ==
    (Evaluating /\ TxRecord /\ HasCondition /\ Get(call.tx, "amount").t = "number") =>
        \A k \in 1..Len(AmountOps), n \in AmountLiterals :
            Condition \in {"amount " \o AmountOps[k] \o " " \o n,
                           "Amount" \o AmountOps[k] \o n} =>
                ((call.ret = "true") <=>
                    Relation(AmountOps[k], Tenths(Get(call.tx, "amount")),
                             LiteralTenths(n)))

\* amount 300 against amount > 300: not satisfied
C5_EqualIsNotGreater ==
    /\ Evaluating /\ TxRecord /\ HasCondition
    /\ Condition = "amount > 300"
    /\ Get(call.tx, "amount") = IntNum(300)
    /\ call.ret = "false"

(***************************************************************************)
(* Synthesis followed by evaluation (SpecSynth)                            *)
(***************************************************************************)
\* the rule as the parser returned it, before synthesis
RawActive == Get(parsedFrom, "rules").xs[call.index]
NumericThreshold(r) ==
    LET thr == Get(r, "threshold")
    IN  \/ thr.t = "number" /\ ~IsNaN(thr)
        \/ thr.t = "string" /\ IsNumLit(thr.s)
NotMachineCheckable(r) ==
    \/ ~HasKey(r, "condition")
    \/ IsStr(Get(r, "condition")) /\ ~LooksLikeCode(Get(r, "condition").s)

\* C1: for a rule with a numeric threshold T, a category C and no
\* machine-checkable condition, the synthesized condition evaluates to true
\* for exactly the transactions with category C and amount greater than T.
C1_SynthesizedMatchesExactly ==
    (/\ Evaluating /\ "index" \in DOMAIN call
     /\ NumericThreshold(RawActive)
     /\ IsStr(Get(RawActive, "category"))
     /\ NotMachineCheckable(RawActive)) =>
        ((call.ret = "true") <=>
            /\ Get(call.tx, "category") = Get(RawActive, "category")
            /\ NumLt(ToNumber(Get(RawActive, "threshold")), Get(call.tx, "amount")))

\* rule number i as the parser returned it and as the parse published it
RawRuleAt(i) == Get(parsedFrom, "rules").xs[i]
ActiveRuleAt(i) == Get(rulesDoc, "rules").xs[i]
Published == parsedFrom # Undef /\ rulesDoc # Null
OtherThanCondition(r) == SelectSeq(r.kv, LAMBDA m : m[1] # "condition")

\* the condition is a string holding one of < > <= >= == != or the word and
\* or the word or, in any case
HasWord(s, w) ==
    \E i \in 1..Len(s) :
        /\ StartsAtCI(s, i, w)
        /\ ~(i > 1 /\ Ch(s, i - 1) \in IdentPart)
        /\ ~(i + Len(w) <= Len(s) /\ Ch(s, i + Len(w)) \in IdentPart)
MachineCheckable(r) ==
    /\ IsStr(Get(r, "condition"))
    /\ \/ \E op \in {"<", ">", "<=", ">=", "==", "!="} : Includes(Get(r, "condition").s, op)
       \/ HasWord(Get(r, "condition").s, "and")
       \/ HasWord(Get(r, "condition").s, "or")

\* the threshold converts to a number, as Number() converts it; the category
\* is there and not empty
ParseableThreshold(r) ==
    ~Nullish(Get(r, "threshold")) /\ ~IsNaN(ToNumber(Get(r, "threshold")))
CategoryPresent(r) == Truthy(Get(r, "category"))

C23_ThresholdAndCategory ==
    Published =>
        \A i \in 1..Len(Get(parsedFrom, "rules").xs) :
            (/\ ~Nullish(Get(ActiveRuleAt(i), "threshold"))
             /\ ~Nullish(Get(ActiveRuleAt(i), "category")))
            => ~Nullish(Get(ActiveRuleAt(i), "condition"))

\* C23: after synthesis has run over a document, every rule whose threshold
\* is a parseable number and whose category is present and not empty has a
\* non-null condition
C23_ConditionPresent ==
    Published =>
        \A i \in 1..Len(Get(parsedFrom, "rules").xs) :
            (ParseableThreshold(ActiveRuleAt(i)) /\ CategoryPresent(ActiveRuleAt(i)))
            => ~Nullish(Get(ActiveRuleAt(i), "condition"))

\* a rule that came without condition, or with a null one, has a synthesized one
C23_MissingConditionFilled ==
    /\ Published
    /\ \E i \in 1..Len(Get(parsedFrom, "rules").xs) :
          /\ Nullish(Get(RawRuleAt(i), "condition"))
          /\ ParseableThreshold(RawRuleAt(i))
          /\ IsStr(Get(ActiveRuleAt(i), "condition"))

(***************************************************************************)
(* Properties of applyPolicyToRows (SpecPolicy)                            *)
(***************************************************************************)
Applied == call.op = "applyPolicyToRows"
Returned == Applied /\ ~call.threw
WithoutRules ==
    \/ call.doc = Null
    \/ ~IsArray(Get(call.doc, "rules"))
    \/ Get(call.doc, "rules").xs = <<>>
ActiveRules == Get(call.doc, "rules").xs
PolicyOf(k) == Get(call.ret[k], "policy")
ViolatedOf(k) == Get(PolicyOf(k), "violated_rules").xs

\* C6: with a rule document that is null, has no rules array or has zero
\* rules, applyPolicyToRows returns for every input transaction a verdict with
\* compliant true, violated_rules empty and reason empty.
C6_NoRulesAllCompliant ==
    (Applied /\ WithoutRules) =>
        /\ ~call.threw
        /\ Len(call.ret) = Len(call.arg)
        /\ \A k \in 1..Len(call.ret) :
              PolicyOf(k) = Obj(<< <<"compliant", Bool(TRUE)>>,
                                   <<"violated_rules", Arr(<<>>)>>,
                                   <<"reason", Str("")>> >>)

\* without rules, a row that came with a non-compliant verdict is returned compliant
C6_ServerVerdictReplaced ==
    /\ Returned /\ WithoutRules
    /\ \E k \in 1..Len(call.arg) :
          /\ Get(call.arg[k], "policy") = ServerVerdict
          /\ Get(PolicyOf(k), "compliant") = Bool(TRUE)

Present(rule, k) == HasKey(rule, k) /\ Get(rule, k) # Str("")
Entry(rule) ==
    IF Present(rule, "name") THEN Get(rule, "name")
    ELSE IF Present(rule, "violation_message") THEN Get(rule, "violation_message")
    ELSE Str(JSONstringify(rule))
Matches(rule, k) == evaluateRuleAgainstTx(rule, call.arg[k]) = "true"
RECURSIVE EntriesFrom(_, _)
EntriesFrom(i, k) ==
    IF i > Len(ActiveRules) THEN <<>>
    ELSE (IF Matches(ActiveRules[i], k) THEN << Entry(ActiveRules[i]) >> ELSE <<>>)
         \o EntriesFrom(i + 1, k)

\* C7: with at least one rule, violated_rules of a transaction holds, in
\* document rule order, one entry for exactly each rule that evaluates to true
\* against it: the name of the rule, else its violation_message, else its JSON
\* text.
C7_ViolatedRulesInOrder ==
    (Returned /\ ~WithoutRules) =>
        \A k \in 1..Len(call.ret) : ViolatedOf(k) = EntriesFrom(1, k)

\* a transaction violates a rule entered by its violation_message and a rule
\* entered by its JSON text
C7_MessageAndJsonEntries ==
    /\ Returned /\ ~WithoutRules
    /\ \E k \in 1..Len(call.ret) :
          /\ Len(ViolatedOf(k)) = 2
          /\ \E i, j \in 1..Len(ActiveRules) :
                /\ ~HasKey(ActiveRules[i], "name")
                /\ ViolatedOf(k)[1] = Get(ActiveRules[i], "violation_message")
                /\ ViolatedOf(k)[2] = Str(JSONstringify(ActiveRules[j]))

RECURSIVE Joined(_)
Joined(xs) ==
    IF Len(xs) = 0 THEN ""
    ELSE IF Len(xs) = 1 THEN xs[1].s
    ELSE Joined(SubSeq(xs, 1, Len(xs) - 1)) \o "; " \o xs[Len(xs)].s

\* C8: in every verdict of applyPolicyToRows, compliant is true exactly when
\* violated_rules is empty, and reason is the entries of violated_rules joined
\* by "; ".
C8_VerdictConsistent ==
    Returned =>
        \A k \in 1..Len(call.ret) :
            /\ Get(PolicyOf(k), "compliant") = Bool(ViolatedOf(k) = <<>>)
            /\ Get(PolicyOf(k), "reason") = Str(Joined(ViolatedOf(k)))

\* a verdict with two violated rules
C8_TwoViolations ==
    /\ Returned
    /\ \E k \in 1..Len(call.ret) :
          /\ Len(ViolatedOf(k)) = 2
          /\ Get(PolicyOf(k), "compliant") = Bool(FALSE)
          /\ Get(PolicyOf(k), "reason")
                = Str(ViolatedOf(k)[1].s \o "; " \o ViolatedOf(k)[2].s)

Raises(rule, k) == evaluateRuleAgainstTx(rule, call.arg[k]) = "throw"

\* C9: when the evaluation of a rule raises an exception inside
\* applyPolicyToRows, the rule counts as not matching for that transaction, and
\* the other rules and the other transactions still get their verdicts.
C9_RuleExceptionContained ==
    (Applied /\ ~WithoutRules) =>
        /\ ~call.threw
        /\ Len(call.ret) = Len(call.arg)
        /\ \A k \in 1..Len(call.arg) :
              (\E i \in 1..Len(ActiveRules) : Raises(ActiveRules[i], k)) =>
                  /\ HasKey(call.ret[k], "policy")
                  /\ \A i \in 1..Len(ActiveRules) :
                        Raises(ActiveRules[i], k) =>
                            \A n \in 1..Len(ViolatedOf(k)) :
                                ViolatedOf(k)[n] # Entry(ActiveRules[i])
                  /\ \A m \in 1..Len(call.arg) :
                        m # k => ViolatedOf(m) = EntriesFrom(1, m)

\* a rule raises on the first transaction and the second one is still found in
\* violation
C9_LaterRowStillScored ==
    /\ Returned /\ ~WithoutRules
    /\ Len(call.arg) = 2
    /\ \E i \in 1..Len(ActiveRules) : Raises(ActiveRules[i], 1)
    /\ ViolatedOf(1) = <<>>
    /\ ViolatedOf(2) # <<>>

\* the fields of a row other than policy
RECURSIVE OtherFields(_)
OtherFields(kv) ==
    IF kv = <<>> THEN <<>>
    ELSE (IF kv[1][1] = "policy" THEN <<>> ELSE << kv[1] >>) \o OtherFields(Tail(kv))
FieldsOf(r) == IF r.t = "object" THEN OtherFields(r.kv) ELSE <<>>

\* C10: applyPolicyToRows returns one output row per input transaction, in
\* input order, each with the non-policy fields of its input row unchanged and
\* a policy verdict; the input rows are left as they were.
C10_RowsPreserved ==
    Returned =>
        /\ Len(call.ret) = Len(call.arg)
        /\ \A k \in 1..Len(call.arg) :
              /\ FieldsOf(call.ret[k]) = FieldsOf(call.arg[k])
              /\ HasKey(call.ret[k], "policy")
        /\ dataset = call.arg

\* two rows are returned in input order, and the input row that had no policy
\* field still has none
C10_TwoRowsInOrder ==
    /\ Returned
    /\ Len(call.arg) = 2
    /\ Get(call.arg[1], "txn_id") # Get(call.arg[2], "txn_id")
    /\ Get(call.ret[1], "txn_id") = Get(call.arg[1], "txn_id")
    /\ Get(call.ret[2], "txn_id") = Get(call.arg[2], "txn_id")
    /\ \E k \in 1..2 : dataset[k].t = "object" /\ ~HasKey(dataset[k], "policy")


(***************************************************************************)
(* Properties of normalizeParserResponse (SpecNormalize)                   *)
(***************************************************************************)
Normalizing == call.op = "normalizeParserResponse"
Response == call.arg

\* the shapes (a)-(c) of a value: a document, an object with one key holding
\* rule-like objects, an array of rule-like objects
RuleLikeObject(x) == x.t = "object" /\ (HasKey(x, "name") \/ HasKey(x, "condition"))
RuleArray(v) == IsArray(v) /\ Len(v.xs) > 0 /\ RuleLikeObject(v.xs[1])
OwnShape(v) ==
    \/ IsArray(Get(v, "rules"))
    \/ \E i \in 1..Len(Entries(v)) : RuleArray(Entries(v)[i][2])
    \/ RuleArray(v)

\* the string candidates of a response in the order of the claim
StringCandidates(resp) ==
    IF IsStr(resp) THEN << resp.s >>
    ELSE IF resp.t = "object"
    THEN LET fs == SelectSeq(CandidateFields, LAMBDA f : IsStr(Get(resp, f)))
         IN  [k \in 1..Len(fs) |-> Get(resp, fs[k]).s]
    ELSE <<>>

\* what the candidate yields when it is the only one
Alone(s) == normalizeParserResponse(Str(s))
Yielding(resp) ==
    {k \in 1..Len(StringCandidates(resp)) : Alone(StringCandidates(resp)[k]).kind = "doc"}

\* C11: when more than one string candidate of a response could yield a rules
\* array, the document returned is the one the first such candidate yields
\* (input string, then extracted, output, text, content); no later candidate
\* replaces it
C11_FirstCandidateWins ==
    (/\ Normalizing
     /\ ~OwnShape(Response)
     /\ Cardinality(Yielding(Response)) > 1)
    => call.ret = Alone(StringCandidates(Response)[Min(Yielding(Response))])


\* C12: normalization returns an error and no document exactly when neither
\* the response itself nor any string candidate yields a rules array; in
\* every other case it returns a document and no error
C12_ErrorIffNothingYields ==
    Normalizing =>
        IF OwnShape(Response) \/ Yielding(Response) # {}
        THEN call.ret.kind = "doc"
        ELSE call.ret.kind = "error"


Succeeded == Normalizing /\ call.ret.kind = "doc"
ReturnedDoc == call.ret.doc

\* C13: whenever normalization succeeds, the rules array of the returned
\* document is non-empty
C13_RulesNonEmpty ==
    Succeeded => IsArray(Get(ReturnedDoc, "rules")) /\ Len(Get(ReturnedDoc, "rules").xs) > 0

\* the input carries no version: neither the response nor, when the document
\* was read from a string candidate, the value parsed from that string
CarriesVersion(resp) ==
    \/ HasKey(resp, "version")
    \/ \E k \in 1..Len(StringCandidates(resp)) :
          \/ HasKey(Bind(JSONparse(StringCandidates(resp)[k]), LAMBDA r :
                            IF r.ok THEN r.v ELSE Undef), "version")

\* C14: whenever normalization succeeds on an input that carries no version,
\* the returned document has version '1.0'
C14_VersionDefaulted ==
    (Succeeded /\ ~CarriesVersion(Response)) => Get(ReturnedDoc, "version") = Str("1.0")


\* the call normalized the document that the call before it had returned
Renormalized == Normalizing /\ "first" \in DOMAIN call

\* the members of a document other than its version
WithoutVersion(doc) == SelectSeq(doc.kv, LAMBDA m : m[1] # "version")

\* C15: normalizing a document that a successful normalization returned
\* succeeds and returns the same rules, conditions included, and the same
\* source; at most the version differs
C15_Idempotent ==
    Renormalized =>
        /\ call.ret.kind = "doc"
        /\ Get(ReturnedDoc, "rules") = Get(Response, "rules")
        /\ Get(ReturnedDoc, "source") = Get(Response, "source")
        /\ WithoutVersion(ReturnedDoc) = WithoutVersion(Response)

\* the first call wrote a synthesized condition into a rule of the document
\* and the second call returned that document as it was
C15_SynthesizedOnce ==
    /\ Renormalized
    /\ IsArray(Get(call.first, "rules"))
    /\ Get(call.first, "rules") # Get(Response, "rules")
    /\ call.ret.kind = "doc"
    /\ ReturnedDoc = Response


\* C16: after normalizeParserResponse returns, the response passed in, every
\* rule object inside it included, is equal to what it was before the call
C16_ResponseUnchanged ==
    (Normalizing /\ call.ret.kind # "throw") => call.after = Response


\* the response is one string that is no JSON text and holds a brace span
\* that is one, and the value read from the span
ProseAroundJson ==
    /\ Normalizing
    /\ IsStr(Response)
    /\ ~JSONparse(Response.s).ok
    /\ BraceSpan(Response.s).ok
    /\ JSONparse(BraceSpan(Response.s).m).ok
SpanValue == JSONparse(BraceSpan(Response.s).m).v

\* C24: when the direct parse of a string candidate fails, the normalizer
\* parses the brace span of the string and accepts the value under the shapes
\* (a)-(c) as it accepts a directly parsed one: a value with a rules array, an
\* object with one key holding rule-like objects, an array of rule-like objects
C24_SpanShapes ==
    (ProseAroundJson /\ OwnShape(SpanValue))
    => call.ret = Alone(BraceSpan(Response.s).m)


(***************************************************************************)
(* Properties of alignParsedCategoriesWithDataset (SpecAlign)              *)
(***************************************************************************)
Aligning == call.op = "alignParsedCategoriesWithDataset"
AlignedAgain == Aligning /\ "first" \in DOMAIN call
AlignReturned == Aligning /\ ~call.threw

\* C17: aligning align(d, C) against C again yields a document equal to
\* align(d, C)
C17_AlignIdempotent ==
    AlignedAgain => ~call.threw /\ call.ret = call.arg

\* the dataset categories as strings, and rule number i of a document
Cats == CategoryStrings(call.cats)
RuleOf(doc, i) == Get(doc, "rules").xs[i]
CategoryOf(doc, i) == Get(RuleOf(doc, i), "category")

\* the dataset categories equal to s but for case, and those that contain s
\* or are contained in it but for case
EqualCI(s) == {k \in 1..Len(Cats) : toLowerCase(Cats[k]) = toLowerCase(s)}
PartCI(s) ==
    {k \in 1..Len(Cats) : \/ Includes(toLowerCase(Cats[k]), toLowerCase(s))
                          \/ Includes(toLowerCase(s), toLowerCase(Cats[k]))}

\* the category the claim gives the value v, compared without the white
\* space around it
MappedAsClaimed(v, result) ==
    IF EqualCI(trim(v.s)) # {} THEN result \in {Str(Cats[k]) : k \in EqualCI(trim(v.s))}
    ELSE IF PartCI(trim(v.s)) # {} THEN result = Str(Cats[Min(PartCI(trim(v.s)))])
    ELSE result = v

\* C18: a rule's category becomes the dataset category equal to it but for
\* case when there is one, else the first dataset category, in dataset order,
\* that contains it or is contained in it but for case, else it stays as it is
C18_CategoryMapping ==
    (AlignReturned /\ IsArray(Get(call.arg, "rules"))) =>
        \A i \in 1..Len(Get(call.arg, "rules").xs) :
            (IsStr(CategoryOf(call.arg, i)) /\ trim(CategoryOf(call.arg, i).s) # "")
            => MappedAsClaimed(CategoryOf(call.arg, i), CategoryOf(call.ret, i))


ConditionOf(doc, i) == Get(RuleOf(doc, i), "condition")

\* the condition out is the condition c with its first quoted literal replaced
\* by the dataset category the literal maps to, or c itself when it holds no
\* literal or the literal maps to no dataset category
RewrittenAsClaimed(c, out) ==
    LET m == FirstQuoted(c)
        lit == trim(m.lit)
        mapped == IF EqualCI(lit) # {} THEN EqualCI(lit)
                  ELSE IF PartCI(lit) # {} THEN {Min(PartCI(lit))}
                  ELSE {}
    IN  IF ~m.ok \/ lit = "" \/ mapped = {} THEN out = c
        ELSE \E k \in mapped :
                 out = SubSeq(c, 1, m.i - 1) \o m.q \o Cats[k] \o m.q \o From(c, m.j + 1)

\* C26: in the condition of a rule the aligner replaces only the first quoted
\* literal, by its mapped category; every other character, later literals
\* included, stays as it was, and a condition whose first literal has no
\* mapping is left unchanged
C26_FirstLiteralOnly ==
    (AlignReturned /\ IsArray(Get(call.arg, "rules"))) =>
        \A i \in 1..Len(Get(call.arg, "rules").xs) :
            IsStr(ConditionOf(call.arg, i)) =>
                /\ IsStr(ConditionOf(call.ret, i))
                /\ RewrittenAsClaimed(ConditionOf(call.arg, i).s, ConditionOf(call.ret, i).s)


\* C19: alignParsedCategoriesWithDataset never modifies the document passed
\* in: after the call the document and its rules are equal to what they were
\* before it, whether the call returned (a copy, when there is a rules array)
\* or raised
C19_InputUntouched ==
    Aligning => call.after = call.arg

\* the call rewrote a category or a condition in the copy it returned
C19_CopyRewritten ==
    /\ AlignReturned
    /\ call.ret # call.arg
    /\ call.after = call.arg


(***************************************************************************)
(* Properties of applyParsedJson (SpecEdit)                                *)
(***************************************************************************)
Resubmitted == call.op = "applyParsedJson"

\* a rule without name or without condition
LacksField(rule) == ~Truthy(Get(rule, "name")) \/ ~Truthy(Get(rule, "condition"))

\* the text is not parseable, is no object, has no rules array, or holds a
\* rule without name or without condition
InvalidEdit(text) ==
    Bind(JSONparse(text), LAMBDA r :
        \/ ~r.ok
        \/ r.v.t \notin {"object", "array"}
        \/ ~IsArray(Get(r.v, "rules"))
        \/ \E i \in 1..Len(Get(r.v, "rules").xs) : LacksField(Get(r.v, "rules").xs[i]))

\* C20: when the document resubmitted through applyParsedJson is invalid, an
\* error message is recorded and the active rule document keeps the value it
\* had before; a valid document becomes the active document and clears the
\* error
C20_InvalidEditRejected ==
    Resubmitted =>
        IF InvalidEdit(call.text)
        THEN parsedJsonError # Null /\ rulesDoc = call.before
        ELSE parsedJsonError = Null /\ rulesDoc = JSONparse(call.text).v

\* a document with a rule that lacks a field was resubmitted while a parsed
\* document was active, and that document is still the active one
C20_RejectedAfterParse ==
    /\ Resubmitted
    /\ JSONparse(call.text).ok
    /\ IsArray(Get(JSONparse(call.text).v, "rules"))
    /\ InvalidEdit(call.text)
    /\ call.before # Null
    /\ rulesDoc = call.before
    /\ parsedJsonError # Null

\* the editor still holds the text the last successful parse put there
Unedited == parsedFrom # Undef /\ call.text = EditorText[parsedFrom]

\* C30: round trip through the editor: after a parse whose normalization
\* succeeded, resubmitting the normalized document unedited through
\* applyParsedJson is accepted (no error) and leaves the active rule document
\* equal to the normalized one
C30_EditorRoundTrip ==
    (Resubmitted /\ Unedited) =>
        /\ parsedJsonError = Null
        /\ rulesDoc = Normalized[parsedFrom].doc

(***************************************************************************)
(* Properties of the two orders (SpecPipeline)                             *)
(***************************************************************************)
BothOrdersApplied == call.op = "normalizeThenAlign"

\* the rules of an outcome, or the exception raised
RulesOf(outcome) ==
    IF outcome.kind = "doc" THEN Get(outcome.doc, "rules") ELSE Str(outcome.kind)

\* C29: for every rule document with a rules array and every list of dataset
\* categories, aligning and then normalizing (with its synthesis) gives the
\* same rules, with the same categories and conditions, as normalizing and
\* then aligning
C29_OrdersAgree ==
    BothOrdersApplied => RulesOf(call.flow) = RulesOf(call.ret)

(***************************************************************************)
(* Properties of the parse flow (SpecParse)                                *)
(***************************************************************************)
ParseFlowRan == call.op \in {"parsePolicyText", "onFile"}

\* C21: every rule document a policy parse produces has gone through
\* normalization, then condition synthesis, then category alignment, each
\* exactly once, when it becomes the active document (stated for parses made
\* with a dataset selected, where there are categories to align with)
C21_StageOrder ==
    (ParseFlowRan /\ call.kind = "doc" /\ Truthy(datasetPath)) =>
        call.stages = << "normalize", "synthesize", "align" >>

\* C25: when the normalization of a parse response fails, the error is
\* recorded, the editor holds the raw response, and the active rule document
\* is the one from before the parse
C25_FailureKeepsRaw ==
    (ParseFlowRan /\ call.kind # "doc") =>
        /\ parsedJsonError # Null
        /\ parsedJsonText = StringifyIndented(call.j, "")
        /\ rulesDoc = call.before

(***************************************************************************)
(* Properties of score (SpecScore)                                         *)
(***************************************************************************)
ScoreCompleted == call.op = "score" /\ ~call.threw

\* the entries of the rules of a document that evaluate to true against a row
RECURSIVE ViolatedBy(_, _, _)
ViolatedBy(rules, i, row) ==
    IF i > Len(rules) THEN <<>>
    ELSE (IF evaluateRuleAgainstTx(rules[i], row) = "true" THEN << Entry(rules[i]) >>
          ELSE <<>>)
         \o ViolatedBy(rules, i + 1, row)

\* the verdict of a row under a document: compliant without violated rules
\* when there is no document or it has no rules
ClientVerdict(doc, row) ==
    LET violated == IF doc = Null \/ ~IsArray(Get(doc, "rules")) THEN <<>>
                    ELSE ViolatedBy(Get(doc, "rules").xs, 1, row)
    IN  Obj(<< <<"compliant", Bool(violated = <<>>)>>,
               <<"violated_rules", Arr(violated)>>,
               <<"reason", Str(Joined(violated))>> >>)

====
